---- MODULE Spec2Model ----
(***************************************************************************)
(* Verification model of Trace2Pass (diagnoser).                           *)
(*                                                                         *)
(* Part 1: VersionBisector.bisect (src/diagnoser/src/version_bisector.py). *)
(* One call of bisect is modelled as a state machine whose steps are the   *)
(* probes (_test_version calls) the call makes, in the order the code      *)
(* makes them.  Versions are identified with their list position 0..N-1    *)
(* (the version list holds distinct names).                                *)
(***************************************************************************)
EXTENDS Integers, Sequences, FiniteSets, TLC

\* ---------------------------------------------------------------- bounds
\* Longest version list explored.
MaxVersions == 6

\* ------------------------------------------------------------- constants
\* Python's None for an index / a version.
None == -1

\* What the environment does with one version (compiler + oracle):
\*   "pass"    compiles, test_func returns True
\*   "fail"    compiles, test_func returns False
\*   "ice"     compiler found, non-zero exit, stderr carries an ICE marker
\*   "diag"    compiler found, non-zero exit, no ICE marker
\*   "unavail" no clang-V / clang-<major> executable (or image) found
Outcomes == {"pass", "fail", "ice", "diag", "unavail"}

VARIABLES
    versions,         \* len(self.versions), the list is 0..versions-1
    outcome,          \* environment: [0..versions-1 -> Outcomes]
    pc,               \* position inside bisect
    passing_idx, failing_idx,
    left, right,
    mid, offset, side,    \* alternate-mid scan position
    first_bad_idx, last_good_idx,
    tested_versions,  \* self.tested_versions (sequence of positions)
    details,          \* dict version -> record
    result            \* the VersionBisectionResult returned, or NoResult

vars == <<versions, outcome, pc, passing_idx, failing_idx, left, right, mid,
          offset, side, first_bad_idx, last_good_idx, tested_versions,
          details, result>>

\* The other components of the system, one record each; a component that
\* is not running holds Idle.
VARIABLES
    cl,               \* one local _test_version call (executable lookup)
    pb,               \* one PassBisector.bisect call
    ubd,              \* one UBDetector.detect call
    fp,               \* one full_pipeline_cmd call
    cli,              \* one run of diagnose.py's main
    db                \* the collector's reports table and its caller

others == <<cl, pb, ubd, fp, cli, db>>

allvars == <<vars, others>>

Idle == [pc |-> "idle"]

NoResult == [verdict |-> "none", first_bad_version |-> None,
             last_good_version |-> None, total_tests |-> 0]

Idx(n) == 0 .. (n - 1)

\* The whole state as one record, so that the steps are functions.
St == [versions |-> versions, outcome |-> outcome, pc |-> pc,
       passing_idx |-> passing_idx, failing_idx |-> failing_idx,
       left |-> left, right |-> right, mid |-> mid, offset |-> offset,
       side |-> side, first_bad_idx |-> first_bad_idx,
       last_good_idx |-> last_good_idx,
       tested_versions |-> tested_versions, details |-> details,
       result |-> result]

\* State right after `self.tested_versions = []; details = {}` (lines 89-106).
InitState(n, o) ==
      [versions |-> n, outcome |-> o, pc |-> "test_min",
       passing_idx |-> None, failing_idx |-> None,
       left |-> 0, right |-> n - 1, mid |-> None, offset |-> 0,
       side |-> "none", first_bad_idx |-> None, last_good_idx |-> None,
       tested_versions |-> <<>>, details |-> <<>>,
       result |-> NoResult]

\* Mutant: an ICE is classified as an ordinary diagnostic rejection.
compile_local_IceAsDiagnostic(o) ==
    CASE o = "unavail" -> [binary_path |-> FALSE, compiler_found |-> FALSE,
                           compile_succeeded |-> FALSE, stderr |-> "none"]
      [] o \in {"ice", "diag"} ->
                          [binary_path |-> FALSE, compiler_found |-> TRUE,
                           compile_succeeded |-> FALSE,
                           stderr |-> "DIAGNOSTIC_ERROR"]
      [] OTHER         -> [binary_path |-> TRUE, compiler_found |-> TRUE,
                           compile_succeeded |-> TRUE, stderr |-> "none"]

\* ---------------------------------------------------- _compile_local
\* (binary_path, compiler_found, compile_succeeded, stderr) for one version.
\* stderr is abstracted to what the caller looks at: nothing, raw compiler
\* output holding an ICE marker, or the text prefixed "DIAGNOSTIC_ERROR: ".
_compile_local(o) ==
    CASE o = "unavail" -> [binary_path |-> FALSE, compiler_found |-> FALSE,
                           compile_succeeded |-> FALSE, stderr |-> "none"]
      [] o = "ice"     -> [binary_path |-> FALSE, compiler_found |-> TRUE,
                           compile_succeeded |-> FALSE, stderr |-> "ice"]
      [] o = "diag"    -> [binary_path |-> FALSE, compiler_found |-> TRUE,
                           compile_succeeded |-> FALSE,
                           stderr |-> "DIAGNOSTIC_ERROR"]
      [] OTHER         -> [binary_path |-> TRUE, compiler_found |-> TRUE,
                           compile_succeeded |-> TRUE, stderr |-> "none"]

\* test_func(version, binary_path)
test_func(o) == IF o = "pass" THEN "True" ELSE "False"

\* details[version] = rec   (dict assignment)
DictSet(d, k, rec) ==
    [j \in (DOMAIN d) \cup {k} |-> IF j = k THEN rec ELSE d[j]]

\* Mutant: a diagnostic rejection is also appended to tested_versions.
test_version_DiagnosticCounted(s, v) ==
    LET c == _compile_local(s.outcome[v]) IN
    IF ~c.compiler_found THEN
        [st  |-> [s EXCEPT !.details = DictSet(@, v,
                     [passes |-> "None", compile_failed |-> FALSE,
                      compile_error_type |-> "none", skipped |-> TRUE])],
         ret |-> "None"]
    ELSE IF ~c.compile_succeeded THEN
        IF c.stderr = "DIAGNOSTIC_ERROR" THEN
            [st  |-> [s EXCEPT
                     !.tested_versions = Append(@, v),
                     !.details = DictSet(@, v,
                     [passes |-> "None", compile_failed |-> TRUE,
                      compile_error_type |-> "diagnostic",
                      skipped |-> TRUE])],
             ret |-> "None"]
        ELSE
            [st  |-> [s EXCEPT
                     !.tested_versions = Append(@, v),
                     !.details = DictSet(@, v,
                     [passes |-> "False", compile_failed |-> TRUE,
                      compile_error_type |-> "ICE", skipped |-> FALSE])],
             ret |-> "False"]
    ELSE
        LET passes == test_func(s.outcome[v]) IN
        [st  |-> [s EXCEPT
                     !.tested_versions = Append(@, v),
                     !.details = DictSet(@, v,
                     [passes |-> passes, compile_failed |-> FALSE,
                      compile_error_type |-> "none", skipped |-> FALSE])],
         ret |-> passes]

\* ------------------------------------------------------ _test_version
\* Returns the updated state and the value returned ("True"/"False"/"None").
_test_version(s, v) ==
    LET c == _compile_local(s.outcome[v]) IN
    IF ~c.compiler_found THEN
        [st  |-> [s EXCEPT !.details = DictSet(@, v,
                     [passes |-> "None", compile_failed |-> FALSE,
                      compile_error_type |-> "none", skipped |-> TRUE])],
         ret |-> "None"]
    ELSE IF ~c.compile_succeeded THEN
        IF c.stderr = "DIAGNOSTIC_ERROR" THEN
            [st  |-> [s EXCEPT !.details = DictSet(@, v,
                     [passes |-> "None", compile_failed |-> TRUE,
                      compile_error_type |-> "diagnostic",
                      skipped |-> TRUE])],
             ret |-> "None"]
        ELSE
            [st  |-> [s EXCEPT
                     !.tested_versions = Append(@, v),
                     !.details = DictSet(@, v,
                     [passes |-> "False", compile_failed |-> TRUE,
                      compile_error_type |-> "ICE", skipped |-> FALSE])],
             ret |-> "False"]
    ELSE
        LET passes == test_func(s.outcome[v]) IN
        [st  |-> [s EXCEPT
                     !.tested_versions = Append(@, v),
                     !.details = DictSet(@, v,
                     [passes |-> passes, compile_failed |-> FALSE,
                      compile_error_type |-> "none", skipped |-> FALSE])],
         ret |-> passes]

\* ------------------------------------------------- endpoint discovery
\* Lines 112-118: the oldest version sets whichever endpoint it witnesses.
RecordMin(s, ret, i) ==
    IF ret = "None" THEN s
    ELSE IF ret = "True" THEN [s EXCEPT !.passing_idx = i]
    ELSE [s EXCEPT !.failing_idx = i]

\* Lines 125-133 and 150-156 / 168-174: later probes only fill an endpoint
\* that is still missing.
RecordIfMissing(s, ret, i) ==
    IF ret = "None" THEN s
    ELSE IF ret = "True" /\ s.passing_idx = None
         THEN [s EXCEPT !.passing_idx = i]
    ELSE IF ret = "False" /\ s.failing_idx = None
         THEN [s EXCEPT !.failing_idx = i]
    ELSE s

BothFound(s) == s.passing_idx # None /\ s.failing_idx # None

\* Mutant: the march stops one version short (left < right).
MarchCond_StopsEarly(s) == ~BothFound(s) /\ s.left < s.right

\* while-condition of the inward march (line 144).
MarchCond(s) == ~BothFound(s) /\ s.left <= s.right

\* Lines 136-144: fast path, or set up the inward march.
AfterEndpoints(s) ==
    IF BothFound(s) THEN [s EXCEPT !.pc = "classify"]
    ELSE LET m == [s EXCEPT !.left = 0 + 1, !.right = (s.versions - 1) - 1]
         IN [m EXCEPT !.pc = IF MarchCond(m) THEN "march_left"
                              ELSE "classify"]

\* Lines 108-118 (+ line 121 when the list has one element).
StepTestMin(s) ==
    LET t  == _test_version(s, 0)
        s1 == RecordMin(t.st, t.ret, 0)
    IN IF s.versions - 1 # 0 THEN [s1 EXCEPT !.pc = "test_max"]
       ELSE AfterEndpoints(s1)

\* Lines 121-144.
StepTestMax(s) ==
    LET t  == _test_version(s, s.versions - 1)
        s1 == RecordIfMissing(t.st, t.ret, s.versions - 1)
    IN AfterEndpoints(s1)

\* Lines 146-161: probe versions[left], then left += 1.
StepMarchLeft(s) ==
    LET t  == _test_version(s, s.left)
        s1 == RecordIfMissing(t.st, t.ret, s.left)
    IN IF t.ret # "None" /\ BothFound(s1) THEN [s1 EXCEPT !.pc = "classify"]
       ELSE LET s2 == [s1 EXCEPT !.left = @ + 1]
            IN [s2 EXCEPT !.pc = IF MarchCond(s2) THEN "march_right"
                                  ELSE "classify"]

\* Lines 163-179: probe versions[right], then right -= 1.
StepMarchRight(s) ==
    LET t  == _test_version(s, s.right)
        s1 == RecordIfMissing(t.st, t.ret, s.right)
    IN IF t.ret # "None" /\ BothFound(s1) THEN [s1 EXCEPT !.pc = "classify"]
       ELSE LET s2 == [s1 EXCEPT !.right = @ - 1]
            IN [s2 EXCEPT !.pc = IF MarchCond(s2) THEN "march_left"
                                  ELSE "classify"]

\* ---------------------------------------------------------- early exits
SetMax(S) == CHOOSE x \in S : \A y \in S : y <= x
SetMin(S) == CHOOSE x \in S : \A y \in S : x <= y
Max2(a, b) == IF a >= b THEN a ELSE b
Min2(a, b) == IF a <= b THEN a ELSE b

\* `ver in self.tested_versions`
Tested(s) == {s.tested_versions[k] : k \in 1 .. Len(s.tested_versions)}

MakeResult(s, verdict, fb, lg) ==
    [s EXCEPT !.pc = "done",
              !.result = [verdict |-> verdict, first_bad_version |-> fb,
                          last_good_version |-> lg,
                          total_tests |-> Len(s.tested_versions)]]

\* Lines 181-282: the three one-sided returns, or the set-up of the search.
StepClassify(s) ==
    IF s.passing_idx = None /\ s.failing_idx = None THEN
        MakeResult(s, "insufficient_compilers", None, None)
    ELSE IF s.passing_idx # None /\ s.failing_idx = None THEN
        MakeResult(s, "all_pass", None, SetMax(Tested(s)))
    ELSE IF s.failing_idx # None /\ s.passing_idx = None THEN
        MakeResult(s, "all_fail", SetMin(Tested(s)), None)
    ELSE
        LET first_idx    == Min2(s.passing_idx, s.failing_idx)
            last_idx     == Max2(s.passing_idx, s.failing_idx)
            first_passes == s.passing_idx < s.failing_idx
            last_passes  == s.passing_idx > s.failing_idx
        IN IF first_passes = last_passes THEN [s EXCEPT !.pc = "raised"]
           ELSE [s EXCEPT
                  !.pc = "bisect_loop",
                  !.left = first_idx,
                  !.right = last_idx,
                  !.first_bad_idx = IF ~last_passes THEN last_idx
                                    ELSE IF ~first_passes THEN first_idx
                                    ELSE None,
                  !.last_good_idx = IF last_passes THEN last_idx
                                    ELSE IF first_passes THEN first_idx
                                    ELSE None]

\* ---------------------------------------------------------- binary search
\* Lines 379-386.
ReturnBisected(s) ==
    MakeResult(s, "bisected",
        IF s.first_bad_idx # None THEN s.first_bad_idx ELSE None,
        IF s.last_good_idx # None
           /\ (s.first_bad_idx = None \/ s.last_good_idx < s.first_bad_idx)
        THEN s.last_good_idx ELSE None)

\* Mutant: a passing probe moves left but is not remembered as last good.
MoveBoundary_ForgetsLastGood(s, ret, i) ==
    IF ret = "True"
    THEN [s EXCEPT !.left = i + 1, !.pc = "bisect_loop"]
    ELSE [s EXCEPT !.first_bad_idx = i, !.right = i, !.pc = "bisect_loop"]

\* Mutant: a failing probe moves right past the failing version.
MoveBoundary_RightOffByOne(s, ret, i) ==
    IF ret = "True"
    THEN [s EXCEPT !.last_good_idx = i, !.left = i + 1, !.pc = "bisect_loop"]
    ELSE [s EXCEPT !.first_bad_idx = i, !.right = i - 1,
                   !.pc = "bisect_loop"]

\* Mutant: a passing probe moves left onto the probed version.
MoveBoundary_LeftStaysAtProbe(s, ret, i) ==
    IF ret = "True"
    THEN [s EXCEPT !.last_good_idx = i, !.left = i, !.pc = "bisect_loop"]
    ELSE [s EXCEPT !.first_bad_idx = i, !.right = i, !.pc = "bisect_loop"]

\* A probe answered pass or fail: move the boundary (lines 296-305, 320-325,
\* 346-351, 365-370) and go round the while loop again.
MoveBoundary(s, ret, i) ==
    IF ret = "True"
    THEN [s EXCEPT !.last_good_idx = i, !.left = i + 1, !.pc = "bisect_loop"]
    ELSE [s EXCEPT !.first_bad_idx = i, !.right = i, !.pc = "bisect_loop"]

\* Mutant: the scan also probes positions that are already in details.
RECURSIVE NextCandidate_IgnoresDetails(_, _, _)
NextCandidate_IgnoresDetails(s, off, sd) ==
    LET max_offset == Max2(s.mid - s.left, s.right - s.mid) IN
    IF off > max_offset THEN ReturnBisected(s)
    ELSE IF sd = "right" THEN
        IF s.mid + off <= s.right
        THEN [s EXCEPT !.pc = "alt_probe", !.offset = off, !.side = "right"]
        ELSE NextCandidate_IgnoresDetails(s, off, "left")
    ELSE
        IF s.mid - off >= s.left
        THEN [s EXCEPT !.pc = "alt_probe", !.offset = off, !.side = "left"]
        ELSE NextCandidate_IgnoresDetails(s, off + 1, "right")

\* The for-loop of lines 335-372, from (off, sd) on: the next position that
\* the loop would probe, or the end of the scan (lines 374-377: break).
RECURSIVE NextCandidate(_, _, _)
NextCandidate(s, off, sd) ==
    LET max_offset == Max2(s.mid - s.left, s.right - s.mid) IN
    IF off > max_offset THEN ReturnBisected(s)
    ELSE IF sd = "right" THEN
        IF s.mid + off <= s.right /\ (s.mid + off) \notin DOMAIN s.details
        THEN [s EXCEPT !.pc = "alt_probe", !.offset = off, !.side = "right"]
        ELSE NextCandidate(s, off, "left")
    ELSE
        IF s.mid - off >= s.left /\ (s.mid - off) \notin DOMAIN s.details
        THEN [s EXCEPT !.pc = "alt_probe", !.offset = off, !.side = "left"]
        ELSE NextCandidate(s, off + 1, "right")

\* Mutant: a skipped mid moves left up to mid.
StepBisectIter_SkipMovesLeft(s) ==
    IF ~(s.left < s.right) THEN ReturnBisected(s)
    ELSE
      LET m  == (s.left + s.right) \div 2
          s0 == [s EXCEPT !.mid = m]
      IN IF m \in DOMAIN s.details THEN
            IF s.details[m].passes = "None" THEN NextCandidate(s0, 1, "right")
            ELSE MoveBoundary(s0, s.details[m].passes, m)
         ELSE
            LET t == _test_version(s0, m)
            IN IF t.ret # "None" THEN MoveBoundary(t.st, t.ret, m)
               ELSE NextCandidate([t.st EXCEPT !.left = m], 1, "right")

\* Lines 284-335: one turn of the while loop up to the first alternate probe.
StepBisectIter(s) ==
    IF ~(s.left < s.right) THEN ReturnBisected(s)
    ELSE
      LET m  == (s.left + s.right) \div 2
          s0 == [s EXCEPT !.mid = m]
      IN IF m \in DOMAIN s.details THEN
            IF s.details[m].passes = "None" THEN NextCandidate(s0, 1, "right")
            ELSE MoveBoundary(s0, s.details[m].passes, m)
         ELSE
            LET t == _test_version(s0, m)
            IN IF t.ret # "None" THEN MoveBoundary(t.st, t.ret, m)
               ELSE NextCandidate(t.st, 1, "right")

\* Lines 337-372: one probe of the alternate-mid scan.
StepAltProbe(s) ==
    LET test_idx == IF s.side = "right" THEN s.mid + s.offset
                    ELSE s.mid - s.offset
        t == _test_version(s, test_idx)
    IN IF t.ret # "None" THEN MoveBoundary(t.st, t.ret, test_idx)
       ELSE IF s.side = "right" THEN NextCandidate(t.st, s.offset, "left")
       ELSE NextCandidate(t.st, s.offset + 1, "right")

\* ------------------------------------------------------- state machine
Apply(t) ==
    /\ versions' = t.versions
    /\ outcome' = t.outcome
    /\ pc' = t.pc
    /\ passing_idx' = t.passing_idx
    /\ failing_idx' = t.failing_idx
    /\ left' = t.left
    /\ right' = t.right
    /\ mid' = t.mid
    /\ offset' = t.offset
    /\ side' = t.side
    /\ first_bad_idx' = t.first_bad_idx
    /\ last_good_idx' = t.last_good_idx
    /\ tested_versions' = t.tested_versions
    /\ details' = t.details
    /\ result' = t.result
    /\ UNCHANGED others

Init ==
    \E n \in 1 .. MaxVersions : \E o \in [Idx(n) -> Outcomes] :
        /\ versions = n
        /\ outcome = o
        /\ pc = "test_min"
        /\ passing_idx = None
        /\ failing_idx = None
        /\ left = 0
        /\ right = n - 1
        /\ mid = None
        /\ offset = 0
        /\ side = "none"
        /\ first_bad_idx = None
        /\ last_good_idx = None
        /\ tested_versions = <<>>
        /\ details = <<>>
        /\ result = NoResult
        /\ cl = Idle /\ pb = Idle /\ ubd = Idle /\ fp = Idle
        /\ cli = Idle /\ db = Idle

TestMin == pc = "test_min" /\ Apply(StepTestMin(St))
TestMax == pc = "test_max" /\ Apply(StepTestMax(St))
MarchLeft == pc = "march_left" /\ Apply(StepMarchLeft(St))
MarchRight == pc = "march_right" /\ Apply(StepMarchRight(St))
Classify == pc = "classify" /\ Apply(StepClassify(St))
BisectIter == pc = "bisect_loop" /\ Apply(StepBisectIter(St))
AltProbe == pc = "alt_probe" /\ Apply(StepAltProbe(St))

Next ==
    \/ TestMin
    \/ TestMax
    \/ MarchLeft
    \/ MarchRight
    \/ Classify
    \/ BisectIter
    \/ AltProbe

Spec == Init /\ [][Next]_vars

\* The step function of the whole call, and the state it ends in.
Step(s) ==
    CASE s.pc = "test_min"    -> StepTestMin(s)
      [] s.pc = "test_max"    -> StepTestMax(s)
      [] s.pc = "march_left"  -> StepMarchLeft(s)
      [] s.pc = "march_right" -> StepMarchRight(s)
      [] s.pc = "classify"    -> StepClassify(s)
      [] s.pc = "bisect_loop" -> StepBisectIter(s)
      [] s.pc = "alt_probe"   -> StepAltProbe(s)
      [] OTHER                -> s

RECURSIVE Run(_)
Run(s) == IF s.pc \in {"done", "raised"} THEN s ELSE Run(Step(s))

\* bisect(source_file, test_func) for a list of n versions and environment o.
bisect(n, o) == Run(InitState(n, o))

TypeOK ==
    /\ versions \in 1 .. (MaxVersions + 1)
    /\ pc \in {"test_min", "test_max", "march_left", "march_right",
               "classify", "bisect_loop", "alt_probe", "done", "raised"}
    /\ DOMAIN details \subseteq Idx(versions)
    /\ Tested(St) \subseteq Idx(versions)

\* =====================================================================
\* Properties of VersionBisector.bisect
\* =====================================================================
Done == pc = "done"

Testable(i) == outcome[i] \in {"pass", "fail", "ice"}
Passing(i)  == outcome[i] = "pass"
Failing(i)  == outcome[i] \in {"fail", "ice"}

\* All passing testable versions precede all failing testable versions.
Monotone ==
    \A i, j \in Idx(versions) : (Passing(i) /\ Failing(j)) => i < j

\* Every version compiles; versions[0..k-1] pass and versions[k..] fail.
CleanSplitAt(k) ==
    \A i \in Idx(versions) : outcome[i] = IF i < k THEN "pass" ELSE "fail"

RecordedPass(v) == v \in DOMAIN details /\ details[v].passes = "True"
RecordedFail(v) == v \in DOMAIN details /\ details[v].passes = "False"

TestedNow == Tested(St)

\* C1: a 'bisected' result has both last_good_version and first_bad_version
\* set, last_good strictly before first_bad in the list, last_good tested and
\* passing, first_bad tested and failing.
C1_BisectedPairWellFormed ==
    (Done /\ result.verdict = "bisected") =>
        /\ result.first_bad_version # None
        /\ result.last_good_version # None
        /\ result.last_good_version < result.first_bad_version
        /\ result.last_good_version \in TestedNow
        /\ RecordedPass(result.last_good_version)
        /\ result.first_bad_version \in TestedNow
        /\ RecordedFail(result.first_bad_version)

\* C2: in a 'bisected' result no tested version lies strictly between
\* last_good_version and first_bad_version.
C2_NoTestedVersionBetween ==
    (Done /\ result.verdict = "bisected"
          /\ result.first_bad_version # None
          /\ result.last_good_version # None) =>
        \A t \in TestedNow :
            ~(result.last_good_version < t /\ t < result.first_bad_version)

\* C3: when both first_bad F and last_good L are returned, every tested
\* version at or before L was recorded passing and every tested version at
\* or after F was recorded failing.
C3_TestedAgreeWithSplit ==
    (Done /\ result.first_bad_version # None
          /\ result.last_good_version # None) =>
        \A t \in TestedNow :
            /\ t <= result.last_good_version => RecordedPass(t)
            /\ t >= result.first_bad_version => RecordedFail(t)

SkipKinds == {"unavail", "diag"}

WithSkips(o, S, kind) == [i \in DOMAIN o |-> IF i \in S THEN kind ELSE o[i]]

\* C4: skip neutrality.  For a monotone environment, turning any further
\* versions other than the returned last_good / first_bad into skips leaves
\* the returned first_bad_version and last_good_version unchanged.
C4_SkipNeutrality ==
    (Done /\ Monotone) =>
        \A S \in SUBSET ({i \in Idx(versions) : Testable(i)}
                           \ {result.first_bad_version,
                              result.last_good_version}) :
          \A kind \in SkipKinds :
            LET r == bisect(versions, WithSkips(outcome, S, kind)).result
            IN /\ r.first_bad_version = result.first_bad_version
               /\ r.last_good_version = result.last_good_version

\* C5: every version compiles, versions[0..k-1] pass and versions[k..N-1]
\* fail with 0 < k < N: the result is 'bisected' with first_bad = versions[k]
\* and last_good = versions[k-1].
C5_CleanSplitFound ==
    \A k \in 1 .. (versions - 1) :
        (Done /\ CleanSplitAt(k)) =>
            /\ result.verdict = "bisected"
            /\ result.first_bad_version = k
            /\ result.last_good_version = k - 1

C5_Witness ==
    /\ Done
    /\ versions >= 4
    /\ \E k \in 2 .. (versions - 2) : CleanSplitAt(k)
    /\ Len(tested_versions) >= 4

\* Scenario S1: six versions, v1..v3 pass, v4..v6 fail, all compile.
ScenarioS1 == versions = 6 /\ CleanSplitAt(3)

ScenarioS4 ==
    /\ versions = 5
    /\ \A i \in Idx(versions) : outcome[i] = IF i = 2 THEN "ice" ELSE "pass"

IceAsFail(o) == [i \in DOMAIN o |-> IF o[i] = "ice" THEN "fail" ELSE o[i]]

\* C7: an ICE counts as a Failed test: the version is appended to
\* tested_versions with passes = False, the call proceeds exactly as if the
\* version had compiled and failed the oracle, and in scenario S4 the result
\* is 'bisected' with first_bad = v3 and last_good = v2.
C7_IceIsFailedTest ==
    /\ \A v \in DOMAIN details :
          outcome[v] = "ice" => (v \in TestedNow /\ RecordedFail(v))
    /\ Done =>
          LET f == bisect(versions, IceAsFail(outcome))
          IN /\ f.result = result
             /\ f.tested_versions = tested_versions
    /\ (Done /\ ScenarioS4) =>
          /\ result.verdict = "bisected"
          /\ result.first_bad_version = 2
          /\ result.last_good_version = 1
          /\ 2 \in TestedNow

C7_Witness == Done /\ ScenarioS4 /\ details[2].compile_error_type = "ICE"

\* C8: every probed version is recorded in exactly one way, as a test (in
\* tested_versions, passes True or False) or as a skip for an Unavailable or
\* Diagnostic outcome (not in tested_versions, passes None); the returned
\* total_tests is the length of tested_versions.
C8_TestOrSkipNeverBoth ==
    /\ \A v \in DOMAIN details :
          \/ /\ v \in TestedNow
             /\ details[v].passes \in {"True", "False"}
             /\ outcome[v] \notin SkipKinds
          \/ /\ v \notin TestedNow
             /\ details[v].passes = "None"
             /\ outcome[v] \in SkipKinds
    /\ TestedNow \subseteq DOMAIN details
    /\ Cardinality(TestedNow) = Len(tested_versions)
    /\ Done => result.total_tests = Len(tested_versions)

C8_Witness ==
    /\ Done
    /\ \E v \in DOMAIN details : outcome[v] = "diag"
    /\ \E v \in DOMAIN details : outcome[v] = "unavail"
    /\ \E v \in DOMAIN details : outcome[v] = "ice"
    /\ Len(tested_versions) >= 3
    /\ result.total_tests >= 3

\* C9: if no version could be tested and at least one version was rejected
\* with an ordinary diagnostic, the verdict is 'diagnostic_errors'.
C9_DiagnosticErrorsVerdict ==
    (Done /\ tested_versions = <<>>
          /\ \E v \in DOMAIN details : outcome[v] = "diag") =>
        result.verdict = "diagnostic_errors"

\* C10: a one-sided verdict is returned only after every version has been
\* probed; if every tested version passes the result is 'all_pass' with no
\* first_bad and last_good the highest tested version; if every tested
\* version fails it is 'all_fail' with no last_good and first_bad the lowest
\* tested version.
C10_OneSidedVerdicts ==
    Done =>
      /\ result.verdict \in {"all_pass", "all_fail"} =>
            DOMAIN details = Idx(versions)
      /\ (TestedNow # {} /\ \A t \in TestedNow : RecordedPass(t)) =>
            /\ result.verdict = "all_pass"
            /\ result.first_bad_version = None
            /\ result.last_good_version \in TestedNow
            /\ \A t \in TestedNow : t <= result.last_good_version
      /\ (TestedNow # {} /\ \A t \in TestedNow : RecordedFail(t)) =>
            /\ result.verdict = "all_fail"
            /\ result.last_good_version = None
            /\ result.first_bad_version \in TestedNow
            /\ \A t \in TestedNow : result.first_bad_version <= t

C10_Witness ==
    /\ Done
    /\ versions >= 5
    /\ result.verdict = "all_pass"
    /\ \E v \in DOMAIN details : outcome[v] \in SkipKinds
    /\ outcome[versions - 1] \in SkipKinds
    /\ Len(tested_versions) >= 2

\* =====================================================================
\* Part 2: executable lookup of VersionBisector._compile_local
\* (src/diagnoser/src/version_bisector.py, lines 492-576), seen through
\* one _test_version call with use_docker = False.
\* =====================================================================
\* A version string is the sequence of its dot-separated components:
\* <<2, 1>> is "2.1", <<2>> is "2".  An executable "clang-<suffix>" is
\* identified with its suffix; the plain "clang" has the empty suffix.
MaxMajor == 2
MaxMinor == 1

VersionNames ==
    {<<M>> : M \in 1 .. MaxMajor}
        \cup {<<M, m>> : M \in 1 .. MaxMajor, m \in 0 .. MaxMinor}

PlainClang == <<>>

Executables == VersionNames \cup {PlainClang}

\* `compiler = None`
NoCompiler == <<None>>

\* What the invoked compiler and the oracle do with the source file.
RunKinds == {"pass", "fail", "ice", "diag"}

\* version.split('.')[0]
MajorOf(version) == <<version[1]>>

\* Mutant: the plain clang is tried as a last candidate.
compiler_candidates_PlainFallback(version) ==
    <<version, MajorOf(version), PlainClang>>

\* Lines 520-523: the names tried, in order.
compiler_candidates(version) == <<version, MajorOf(version)>>

\* shutil.which(candidate)
which(path, candidate) == candidate \in path

\* Lines 525-529: the first candidate found on PATH, or None.
RECURSIVE FirstOnPath(_, _)
FirstOnPath(cands, path) ==
    IF cands = <<>> THEN NoCompiler
    ELSE IF which(path, Head(cands)) THEN Head(cands)
    ELSE FirstOnPath(Tail(cands), path)

ChooseCompiler(version, path) ==
    FirstOnPath(compiler_candidates(version), path)

\* What _compile_local meets for this version: nothing to run (lines
\* 531-535), or the behaviour of the executable it runs (lines 537-576).
LocalOutcome(version, path, run) ==
    IF ChooseCompiler(version, path) = NoCompiler THEN "unavail" ELSE run

\* One _test_version(version) call on a fresh bisector: the executables
\* it ran, the tuple _compile_local returned and what the call recorded.
TestVersionLocal(version, path, run) ==
    LET compiler == ChooseCompiler(version, path)
        o == LocalOutcome(version, path, run)
        t == _test_version(InitState(1, [i \in Idx(1) |-> o]), 0)
    IN [pc |-> "done", version |-> version, path |-> path, run |-> run,
        invoked |-> IF compiler = NoCompiler THEN {} ELSE {compiler},
        compiled |-> _compile_local(o),
        tested_versions |-> t.st.tested_versions,
        details |-> t.st.details,
        ret |-> t.ret]

IdleBisector ==
    /\ versions = 0
    /\ outcome = <<>>
    /\ pc = "idle"
    /\ passing_idx = None
    /\ failing_idx = None
    /\ left = 0
    /\ right = 0
    /\ mid = None
    /\ offset = 0
    /\ side = "none"
    /\ first_bad_idx = None
    /\ last_good_idx = None
    /\ tested_versions = <<>>
    /\ details = <<>>
    /\ result = NoResult

InitLocal ==
    /\ IdleBisector
    /\ \E version \in VersionNames : \E path \in SUBSET Executables :
       \E run \in RunKinds :
           cl = [pc |-> "call", version |-> version, path |-> path,
                 run |-> run]
    /\ pb = Idle /\ ubd = Idle /\ fp = Idle
    /\ cli = Idle /\ db = Idle

CallTestVersion ==
    /\ cl.pc = "call"
    /\ cl' = TestVersionLocal(cl.version, cl.path, cl.run)
    /\ UNCHANGED <<vars, pb, ubd, fp, cli, db>>

NextLocal == CallTestVersion

SpecLocal == InitLocal /\ [][NextLocal]_allvars

\* C11: a local compile for version V runs only clang-V or clang-<major of
\* V>; when neither is on PATH nothing is run, no binary is returned and V
\* is recorded as a skip (not tested, passes = None); the plain clang is
\* never run, so no binary attributed to V comes from it.
C11_OnlyVersionedClang ==
    cl.pc = "done" =>
        /\ cl.invoked \subseteq {cl.version, MajorOf(cl.version)}
        /\ PlainClang \notin cl.invoked
        /\ cl.compiled.binary_path => cl.invoked # {}
        /\ (~which(cl.path, cl.version)
              /\ ~which(cl.path, MajorOf(cl.version))) =>
               /\ cl.invoked = {}
               /\ ~cl.compiled.binary_path
               /\ cl.tested_versions = <<>>
               /\ cl.details[0].skipped
               /\ cl.details[0].passes = "None"
               /\ cl.ret = "None"

\* Only the plain clang is installed, and the version was skipped.
C11_Witness ==
    /\ cl.pc = "done"
    /\ cl.path = {PlainClang}
    /\ cl.run = "pass"
    /\ cl.details[0].skipped
    /\ cl.invoked = {}

\* =====================================================================
\* Part 3: PassBisector.bisect (src/diagnoser/src/pass_bisector.py).
\* One call is a state machine with one step per probe
\* (_compile_and_test_with_passes call), in the order the code makes them.
\* =====================================================================
\* Longest pass pipeline explored.
MaxPasses == 5

\* What the environment does with the prefix of a given length:
\*   "pass"     binary built, test_func returns True
\*   "fail"     binary built, test_func returns False
\*   "error"    clang or opt exits non-zero (CalledProcessError)
\*   "test_exc" binary built, test_func raises
\*   "raise"    a subprocess runs into its timeout (TimeoutExpired)
ProbeKinds == {"pass", "fail", "error", "test_exc", "raise"}

\* culprit_pass = None
NoPass == "None"

\* Pass tokens; a pipeline may hold the same token more than once.
PassNames == <<"instcombine", "simplifycfg">>

\* The pipeline extract_pass_pipeline returns when it has n tokens.
PipelineOf(n) == [i \in Idx(n) |-> PassNames[(i % Len(PassNames)) + 1]]

NoPassResult == [verdict |-> "none", culprit_pass |-> NoPass,
                 culprit_index |-> None, last_good_index |-> None,
                 tested_indices |-> <<>>, total_tests |-> 0]

\* State at entry of bisect (lines 282-290), for an environment where the
\* extraction yields n tokens (or raises) and prefix k behaves as probe[k].
PassInitState(n, extract, probe) ==
    [pc |-> "extract", n |-> n, extract |-> extract, probe |-> probe,
     pass_pipeline |-> <<>>, left |-> 0, right |-> 0, last_good_idx |-> 0,
     tested_indices |-> <<>>, total_tests |-> 0, details |-> <<>>,
     result |-> NoPassResult]

\* Lines 165-248: (test_passed, details) for one prefix, or the exception
\* that leaves the function.
_compile_and_test_with_passes(kind) ==
    CASE kind = "pass"     -> [raised |-> FALSE, test_passed |-> TRUE,
                               error |-> FALSE]
      [] kind = "fail"     -> [raised |-> FALSE, test_passed |-> FALSE,
                               error |-> FALSE]
      [] kind = "error"    -> [raised |-> FALSE, test_passed |-> FALSE,
                               error |-> TRUE]
      [] kind = "test_exc" -> [raised |-> FALSE, test_passed |-> FALSE,
                               error |-> TRUE]
      [] OTHER             -> [raised |-> TRUE, test_passed |-> FALSE,
                               error |-> FALSE]

\* tested_indices.append(k); total_tests += 1; details[...] = probe details
RecordProbe(s, k, r) ==
    [s EXCEPT !.tested_indices = Append(@, k),
              !.total_tests = @ + 1,
              !.details = DictSet(@, k, [test_passed |-> r.test_passed,
                                         error |-> r.error])]

\* sorted(tested_indices)
sorted(seq) == SortSeq(seq, LAMBDA a, b : a < b)

PassReturn(s, verdict, culprit_pass, culprit_index, last_good_index, tested) ==
    [s EXCEPT !.pc = "done",
              !.result = [verdict |-> verdict,
                          culprit_pass |-> culprit_pass,
                          culprit_index |-> culprit_index,
                          last_good_index |-> last_good_index,
                          tested_indices |-> tested,
                          total_tests |-> s.total_tests]]

\* Lines 292-317: extraction; an exception or an empty pipeline is 'error'.
StepExtract(s) ==
    IF s.extract = "raises" \/ s.n = 0
    THEN PassReturn(s, "error", NoPass, None, None, <<>>)
    ELSE [s EXCEPT !.pass_pipeline = PipelineOf(s.n), !.pc = "baseline"]

\* Mutant: only a build error of the baseline counts as a failed baseline.
baseline_fails_OnlyOnError(r) == r.error

\* Line 332: `if not baseline_passes`
baseline_fails(r) == ~r.test_passed

\* Lines 322-343: the probe with 0 passes.
StepBaseline(s) ==
    LET r == _compile_and_test_with_passes(s.probe[0]) IN
    IF r.raised THEN [s EXCEPT !.pc = "raised"]
    ELSE LET t == RecordProbe(s, 0, r) IN
         IF baseline_fails(r)
         THEN PassReturn(t, "baseline_fails", NoPass, None, None,
                         t.tested_indices)
         ELSE [t EXCEPT !.pc = "full"]

\* Mutant: the culprit is taken to be the pass at index right.
culprit_idx_OffByOne(s) == s.right

\* Line 398: culprit_idx = right - 1
culprit_idx(s) == s.right - 1

\* Lines 375-412: the while-condition, and the return once it is false.
LoopOrReturn(s) ==
    IF s.left < s.right - 1 THEN [s EXCEPT !.pc = "bisect_loop"]
    ELSE LET c == culprit_idx(s) IN
         PassReturn(s, "bisected",
                    IF c \in DOMAIN s.pass_pipeline
                    THEN s.pass_pipeline[c] ELSE NoPass,
                    c, s.last_good_idx, sorted(s.tested_indices))

\* Lines 345-373: the probe with all passes, then the search set-up.
StepFull(s) ==
    LET r == _compile_and_test_with_passes(s.probe[s.n]) IN
    IF r.raised THEN [s EXCEPT !.pc = "raised"]
    ELSE LET t == RecordProbe(s, s.n, r) IN
         IF r.test_passed
         THEN PassReturn(t, "full_passes", NoPass, None, s.n,
                         t.tested_indices)
         ELSE LoopOrReturn([t EXCEPT !.left = 0, !.right = s.n,
                                     !.last_good_idx = 0])

\* Mutant: a failing mid prefix moves the left boundary.
PassMoveBoundary_WrongSide(s, pmid, mid_passes) ==
    IF mid_passes THEN [s EXCEPT !.left = pmid, !.last_good_idx = pmid]
    ELSE [s EXCEPT !.left = pmid]

\* Lines 386-394 (pmid is the local `mid`).
PassMoveBoundary(s, pmid, mid_passes) ==
    IF mid_passes THEN [s EXCEPT !.left = pmid, !.last_good_idx = pmid]
    ELSE [s EXCEPT !.right = pmid]

\* Lines 375-394: one iteration of the binary search.
StepBisect(s) ==
    LET pmid == (s.left + s.right) \div 2
        r == _compile_and_test_with_passes(s.probe[pmid])
    IN IF r.raised THEN [s EXCEPT !.pc = "raised"]
       ELSE LoopOrReturn(PassMoveBoundary(RecordProbe(s, pmid, r), pmid,
                                          r.test_passed))

\* ------------------------------------------------------- state machine
InitPass ==
    /\ IdleBisector
    /\ \/ pb = PassInitState(0, "raises", [k \in 0 .. 0 |-> "pass"])
       \/ \E n \in 0 .. MaxPasses : \E probe \in [0 .. n -> ProbeKinds] :
              pb = PassInitState(n, "ok", probe)
    /\ cl = Idle /\ ubd = Idle /\ fp = Idle
    /\ cli = Idle /\ db = Idle

Extract ==
    /\ pb.pc = "extract"
    /\ pb' = StepExtract(pb)
    /\ UNCHANGED <<vars, cl, ubd, fp, cli, db>>

Baseline ==
    /\ pb.pc = "baseline"
    /\ pb' = StepBaseline(pb)
    /\ UNCHANGED <<vars, cl, ubd, fp, cli, db>>

Full ==
    /\ pb.pc = "full"
    /\ pb' = StepFull(pb)
    /\ UNCHANGED <<vars, cl, ubd, fp, cli, db>>

Bisect ==
    /\ pb.pc = "bisect_loop"
    /\ pb' = StepBisect(pb)
    /\ UNCHANGED <<vars, cl, ubd, fp, cli, db>>

NextPass ==
    \/ Extract
    \/ Baseline
    \/ Full
    \/ Bisect

SpecPass == InitPass /\ [][NextPass]_allvars

\* The step function of the whole call, and the state it ends in.
PassStep(s) ==
    CASE s.pc = "extract"     -> StepExtract(s)
      [] s.pc = "baseline"    -> StepBaseline(s)
      [] s.pc = "full"        -> StepFull(s)
      [] s.pc = "bisect_loop" -> StepBisect(s)
      [] OTHER                -> s

RECURSIVE PassRun(_)
PassRun(s) == IF s.pc \in {"done", "raised"} THEN s ELSE PassRun(PassStep(s))

\* PassBisector.bisect for a pipeline of n tokens and environment probe.
pass_bisect(n, extract, probe) == PassRun(PassInitState(n, extract, probe))

\* =====================================================================
\* Properties of PassBisector.bisect
\* =====================================================================
PassBisected == pb.pc = "done" /\ pb.result.verdict = "bisected"

\* The probe of prefix length k ended with test result False.
ProbeFailed(k) == pb.probe[k] \in {"fail", "error", "test_exc"}

ProbedPrefixes == {pb.result.tested_indices[i] :
                       i \in 1 .. Len(pb.result.tested_indices)}

\* C12: in a 'bisected' result with culprit_index = k, prefix length k was
\* probed and passed, and prefix length k + 1 was probed and failed (a
\* prefix the tools reject counts as failed).
C12_CulpritPrefixes ==
    PassBisected =>
        LET k == pb.result.culprit_index IN
        /\ k \in ProbedPrefixes
        /\ (k + 1) \in ProbedPrefixes
        /\ pb.probe[k] = "pass"
        /\ pb.details[k].test_passed
        /\ ProbeFailed(k + 1)
        /\ ~pb.details[k + 1].test_passed

\* A search that needed mid probes and ended strictly inside the pipeline.
C12_Witness ==
    /\ PassBisected
    /\ pb.result.culprit_index \notin {0, pb.n - 1}
    /\ pb.result.total_tests > 3

\* C13: in a 'bisected' result culprit_index is a valid index of
\* pass_pipeline, culprit_pass is the token at that index, and
\* last_good_index is strictly less than culprit_index.
C13_LastGoodBelowCulprit ==
    PassBisected =>
        /\ 0 <= pb.result.culprit_index
        /\ pb.result.culprit_index < pb.n
        /\ pb.result.culprit_pass = pb.pass_pipeline[pb.result.culprit_index]
        /\ pb.result.last_good_index < pb.result.culprit_index

\* The binary built with zero passes fails the oracle.
BaselineFailsOracle ==
    /\ pb.pc # "idle"
    /\ pb.extract = "ok"
    /\ pb.n > 0
    /\ pb.probe[0] \in {"fail", "test_exc"}

\* C14: when the zero-pass binary fails the oracle, bisect makes no probe
\* beyond the bookends (here: only the baseline probe) and returns
\* 'baseline_fails' with culprit_pass = None and culprit_index = None.
C14_BaselineFails ==
    BaselineFailsOracle =>
        /\ pb.pc \in {"extract", "baseline", "done"}
        /\ pb.total_tests <= 2
        /\ Len(pb.tested_indices) <= 2
        /\ pb.pc = "baseline" => pb.total_tests = 0
        /\ pb.pc = "done" =>
               /\ pb.result.verdict = "baseline_fails"
               /\ pb.result.culprit_pass = NoPass
               /\ pb.result.culprit_index = None
               /\ pb.result.total_tests <= 2

C14_Witness ==
    /\ BaselineFailsOracle
    /\ pb.pc = "done"
    /\ pb.n > 1
    /\ pb.probe[pb.n] = "fail"
    /\ pb.result.verdict = "baseline_fails"

\* =====================================================================
\* Part 4: UBDetector.detect (src/diagnoser/src/ub_detector.py).
\* =====================================================================
\* ------------------------------------------------ Python float values
\* The confidence is a Python float (IEEE-754 binary64).  Every value the
\* scoring can produce lies in [0, 2) and is a multiple of 2^-55, so a
\* float x is held exactly as the integer x * 2^55, split into two limbs
\* of 28 bits: x * 2^55 = hi * 2^28 + lo.
Limb == 2^28

Dbl(hi, lo) == [hi |-> hi, lo |-> lo]

\* The literals of the source, by float.hex():
\*   0.0                          0.5  = 0x1.0000000000000p-1
\*   0.3  = 0x1.3333333333333p-2  0.4  = 0x1.999999999999ap-2
\*   0.2  = 0x1.999999999999ap-3  0.15 = 0x1.3333333333333p-3
\*   0.25 = 0x1.0000000000000p-2  0.6  = 0x1.3333333333333p-1
\*   1.0  = 0x1.0000000000000p+0
F_0_0 == Dbl(0, 0)
F_0_5 == Dbl(67108864, 0)
F_0_3 == Dbl(40265318, 107374182)
F_0_4 == Dbl(53687091, 53687092)
F_0_2 == Dbl(26843545, 161061274)
F_0_15 == Dbl(20132659, 53687091)
F_0_25 == Dbl(33554432, 0)
F_0_6 == Dbl(80530636, 214748364)
F_1_0 == Dbl(134217728, 0)

\* Carry or borrow between the limbs.
Norm(hi, lo) ==
    IF lo >= Limb THEN Dbl(hi + 1, lo - Limb)
    ELSE IF lo < 0 THEN Dbl(hi - 1, lo + Limb)
    ELSE Dbl(hi, lo)

\* Spacing of the floats around the exact value x, in units of 2^-55:
\* 53 significant bits, so 8 in [1, 2), 4 in [0.5, 1), 2 in [0.25, 0.5),
\* 1 below.
Quantum(x) ==
    IF x.hi >= F_1_0.hi THEN 8
    ELSE IF x.hi >= F_0_5.hi THEN 4
    ELSE IF x.hi >= F_0_25.hi THEN 2
    ELSE 1

\* Round to nearest, ties to even (the IEEE-754 default Python uses).
RoundNearestEven(x) ==
    LET q    == Quantum(x)
        r    == x.lo % q
        down == x.lo - r
        up   == IF 2 * r > q THEN TRUE
                ELSE IF 2 * r < q THEN FALSE
                ELSE (down \div q) % 2 = 1
    IN IF r = 0 THEN x
       ELSE IF up THEN Norm(x.hi, down + q)
       ELSE Dbl(x.hi, down)

\* a + b and a - b on floats (a >= b in the subtraction).
FAdd(a, b) == RoundNearestEven(Norm(a.hi + b.hi, a.lo + b.lo))

FSub(a, b) == RoundNearestEven(Norm(a.hi - b.hi, a.lo - b.lo))

\* a <= b, a < b on floats
FLe(a, b) == a.hi < b.hi \/ (a.hi = b.hi /\ a.lo <= b.lo)

FLt(a, b) == a.hi < b.hi \/ (a.hi = b.hi /\ a.lo < b.lo)

\* min(a, b), max(a, b)
FMin(a, b) == IF FLe(a, b) THEN a ELSE b

FMax(a, b) == IF FLe(a, b) THEN b ELSE a

\* round(x * 100): the value in hundredths, as `{confidence:.2%}` shows it
\* (from the leading 20 bits of x, exact to 2^-19).
Hundredths(x) == ((x.hi \div 2^8) * 100 + 2^18) \div 2^19

\* ------------------------------------------------------- environment
\* What one compile-and-run of the program does: the compiler rejects it,
\* the binary runs into the 10 s timeout, or it ends with a return code
\* and a stdout.
Stdouts == {"", "A"}

RunOutcomes ==
    {[kind |-> "compile_failed", returncode |-> 0, stdout |-> ""],
     [kind |-> "timeout", returncode |-> 0, stdout |-> ""]}
        \cup [kind : {"ran"}, returncode : {0, 1}, stdout : Stdouts]

DefaultRun == [kind |-> "ran", returncode |-> 0, stdout |-> "A"]

\* The sanitizer build and run: the -fsanitize=undefined compile fails,
\* the run prints no "runtime error:", prints it, or hits the timeout.
UbsanKinds == {"compile_failed", "clean", "triggered", "timeout"}

\* expected_output when the caller supplies one.
ExpectedOutput == "A"

\* dict.get on the record one run leaves in details
get_compile_failed(o) == o.kind = "compile_failed"

get_timeout(o) == o.kind = "timeout"

get_returncode(o) == IF o.kind = "ran" THEN o.returncode ELSE 0

get_stdout(o, default) == IF o.kind = "ran" THEN o.stdout ELSE default

\* `details = {}` and the locals of detect before the first check.
UBInitState(clang, gcc, has_expected, ubsan, o0, o2, mc_clang, mc_gcc) ==
    [pc |-> "check_ubsan", clang |-> clang, gcc |-> gcc,
     has_expected |-> has_expected, ubsan |-> ubsan, o0 |-> o0, o2 |-> o2,
     mc_clang |-> mc_clang, mc_gcc |-> mc_gcc,
     ubsan_clean |-> FALSE, optimization_sensitive |-> FALSE,
     multi_compiler_differs |-> FALSE,
     details |-> [ubsan |-> "missing", optimization |-> "missing",
                  multi_compiler |-> "missing",
                  runtime_crash_signal |-> FALSE],
     result |-> [verdict |-> "none", confidence |-> F_0_0,
                 ubsan_clean |-> FALSE, optimization_sensitive |-> FALSE,
                 multi_compiler_differs |-> FALSE]]

\* Lines 174-176 and 194-199: the value returned when the sanitizer
\* could not be built or there is no clang.
ubsan_unknown_value == TRUE

\* ---------------------------------------------------- _check_ubsan
\* Lines 162-220.  The sanitizer run is not inside a try block, so its
\* TimeoutExpired leaves detect.
StepCheckUbsan(s) ==
    IF ~s.clang
    THEN [s EXCEPT !.details.ubsan = "error",
                   !.ubsan_clean = ubsan_unknown_value,
                   !.pc = "check_optimization"]
    ELSE IF s.ubsan = "compile_failed"
    THEN [s EXCEPT !.details.ubsan = "compile_failed",
                   !.ubsan_clean = ubsan_unknown_value,
                   !.pc = "check_optimization"]
    ELSE IF s.ubsan = "timeout"
    THEN [s EXCEPT !.pc = "raised"]
    ELSE LET ubsan_triggered == s.ubsan = "triggered" IN
         [s EXCEPT !.details.ubsan = IF ubsan_triggered THEN "triggered"
                                     ELSE "clean",
                   !.ubsan_clean = ~ubsan_triggered,
                   !.pc = "check_optimization"]

\* ------------------------------------ _check_optimization_sensitivity
\* Lines 277-318: the value returned once the four levels were run
\* (-O1 and -O3 are run and recorded but never read).
OptimizationSensitive(has_expected, o0_output, o2_output) ==
    IF has_expected THEN
        LET o0_failed == get_compile_failed(o0_output)
                             \/ get_timeout(o0_output)
            o2_failed == get_compile_failed(o2_output)
                             \/ get_timeout(o2_output)
            o0_correct == get_stdout(o0_output, "None") = ExpectedOutput
            o2_correct == get_stdout(o2_output, "None") = ExpectedOutput
        IN IF ~o0_failed /\ o2_failed THEN TRUE
           ELSE IF o0_failed THEN FALSE
           ELSE o0_correct /\ ~o2_correct
    ELSE get_stdout(o0_output, "") # get_stdout(o2_output, "")

\* Lines 222-318.
StepCheckOptimization(s) ==
    IF ~s.clang
    THEN [s EXCEPT !.details.optimization = "error",
                   !.optimization_sensitive = FALSE,
                   !.pc = "check_multi_compiler"]
    ELSE [s EXCEPT !.details.optimization = "outputs",
                   !.optimization_sensitive =
                       OptimizationSensitive(s.has_expected, s.o0, s.o2),
                   !.pc = "check_multi_compiler"]

\* ---------------------------------------------- _check_multi_compiler
runtime_failed(o) == get_timeout(o) \/ get_returncode(o) # 0

\* Lines 377-425: [differs, runtime_crash_signal]
MultiCompiler(clang_result, gcc_result) ==
    IF get_compile_failed(clang_result) \/ get_compile_failed(gcc_result)
    THEN [differs |-> FALSE, crash |-> FALSE]
    ELSE IF runtime_failed(clang_result) /\ runtime_failed(gcc_result)
    THEN [differs |-> FALSE, crash |-> FALSE]
    ELSE IF runtime_failed(clang_result) \/ runtime_failed(gcc_result)
    THEN [differs |-> TRUE, crash |-> TRUE]
    ELSE [differs |-> get_stdout(clang_result, "")
                          # get_stdout(gcc_result, ""),
          crash |-> FALSE]

\* Lines 85-89 of detect with lines 320-425.
StepCheckMultiCompiler(s) ==
    IF s.gcc /\ s.clang
    THEN LET m == MultiCompiler(s.mc_clang, s.mc_gcc) IN
         [s EXCEPT !.details.multi_compiler = "outputs",
                   !.details.runtime_crash_signal = m.crash,
                   !.multi_compiler_differs = m.differs,
                   !.pc = "score"]
    ELSE [s EXCEPT !.multi_compiler_differs = FALSE, !.pc = "score"]

\* ------------------------------------------------ _compute_confidence
\* Mutant: a clean sanitizer run adds 0.2 only.
UbsanCleanBonus_Small == F_0_2

\* Line 452: confidence += 0.3
UbsanCleanBonus == F_0_3

\* Lines 427-480.
_compute_confidence(ubsan_clean_, opt_sensitive_, mc_differs_, details_) ==
    LET c0 == F_0_5
        c1 == IF ubsan_clean_ THEN FAdd(c0, UbsanCleanBonus)
              ELSE FSub(c0, F_0_4)
        c2 == IF opt_sensitive_ THEN FAdd(c1, F_0_2) ELSE c1
        is_crash_signal == details_.multi_compiler = "outputs"
                               /\ details_.runtime_crash_signal
        c3 == IF mc_differs_
              THEN IF is_crash_signal THEN FAdd(c2, F_0_25)
                   ELSE FAdd(c2, F_0_15)
              ELSE c2
    IN FMax(F_0_0, FMin(F_1_0, c3))

\* Mutant: the user_ub threshold is exclusive.
IsUserUB_Exclusive(confidence) == FLt(confidence, F_0_3)

\* Line 148: confidence <= 0.3
IsUserUB(confidence) == FLe(confidence, F_0_3)

\* Lines 146-151.
VerdictOf(confidence) ==
    IF FLe(F_0_6, confidence) THEN "compiler_bug"
    ELSE IF IsUserUB(confidence) THEN "user_ub"
    ELSE "inconclusive"

UBReturn(s, verdict, confidence, optimization_sensitive_) ==
    [s EXCEPT !.pc = "done",
              !.result = [verdict |-> verdict, confidence |-> confidence,
                          ubsan_clean |-> s.ubsan_clean,
                          optimization_sensitive |->
                              optimization_sensitive_,
                          multi_compiler_differs |->
                              s.multi_compiler_differs]]

\* Mutant: a failed baseline is scored like any other run.
baseline_failed_Never(o0_result) == FALSE

\* Lines 115-119.
baseline_failed(o0_result) ==
    \/ get_compile_failed(o0_result)
    \/ get_timeout(o0_result)
    \/ get_returncode(o0_result) # 0

\* Lines 93-160: the two short-circuits, then scoring and the verdict.
StepScore(s) ==
    IF s.details.optimization # "outputs"
    THEN UBReturn(s, "inconclusive", F_0_5, FALSE)
    ELSE IF baseline_failed(s.o0)
    THEN UBReturn(s, "inconclusive", F_0_5, FALSE)
    ELSE LET confidence == _compute_confidence(s.ubsan_clean,
                               s.optimization_sensitive,
                               s.multi_compiler_differs, s.details)
         IN UBReturn(s, VerdictOf(confidence), confidence,
                     s.optimization_sensitive)

\* ------------------------------------------------------- state machine
\* Inputs that detect never consults are held at DefaultRun.
InitUB ==
    /\ IdleBisector
    /\ \E clang \in BOOLEAN, gcc \in BOOLEAN, has_expected \in BOOLEAN :
       \E ubsan \in UbsanKinds : \E o0 \in RunOutcomes, o2 \in RunOutcomes :
       \E mc_clang \in RunOutcomes, mc_gcc \in RunOutcomes :
           /\ ~clang => /\ ubsan = "clean"
                        /\ o0 = DefaultRun /\ o2 = DefaultRun
                        /\ ~has_expected
           /\ ~(clang /\ gcc) => mc_clang = DefaultRun /\ mc_gcc = DefaultRun
           /\ ubd = UBInitState(clang, gcc, has_expected, ubsan, o0, o2,
                                mc_clang, mc_gcc)
    /\ cl = Idle /\ pb = Idle /\ fp = Idle
    /\ cli = Idle /\ db = Idle

CheckUbsan ==
    /\ ubd.pc = "check_ubsan"
    /\ ubd' = StepCheckUbsan(ubd)
    /\ UNCHANGED <<vars, cl, pb, fp, cli, db>>

CheckOptimization ==
    /\ ubd.pc = "check_optimization"
    /\ ubd' = StepCheckOptimization(ubd)
    /\ UNCHANGED <<vars, cl, pb, fp, cli, db>>

CheckMultiCompiler ==
    /\ ubd.pc = "check_multi_compiler"
    /\ ubd' = StepCheckMultiCompiler(ubd)
    /\ UNCHANGED <<vars, cl, pb, fp, cli, db>>

Score ==
    /\ ubd.pc = "score"
    /\ ubd' = StepScore(ubd)
    /\ UNCHANGED <<vars, cl, pb, fp, cli, db>>

NextUB ==
    \/ CheckUbsan
    \/ CheckOptimization
    \/ CheckMultiCompiler
    \/ Score

SpecUB == InitUB /\ [][NextUB]_allvars

\* =====================================================================
\* Properties of UBDetector.detect
\* =====================================================================
UBDone == ubd.pc = "done"

\* The environment lets detect reach the scoring: there is a clang and
\* the -O0 binary was built and ran to completion with exit code 0.
BaselineEstablished ==
    /\ ubd.clang
    /\ ubd.o0.kind = "ran"
    /\ ubd.o0.returncode = 0

\* The sanitizer binary was built and its run ended.
SanitizerRan == ubd.clang /\ ubd.ubsan \in {"clean", "triggered"}

BothCompilersRan ==
    /\ ubd.clang /\ ubd.gcc
    /\ ubd.mc_clang.kind # "compile_failed"
    /\ ubd.mc_gcc.kind # "compile_failed"

Crashed(o) == o.kind = "timeout" \/ (o.kind = "ran" /\ o.returncode # 0)

\* Exactly one compiler's -O2 binary crashes.
CrashAsymmetry ==
    BothCompilersRan /\ (Crashed(ubd.mc_clang) # Crashed(ubd.mc_gcc))

\* Both -O2 binaries run to completion and print different outputs.
OutputDifference ==
    /\ BothCompilersRan
    /\ ~Crashed(ubd.mc_clang) /\ ~Crashed(ubd.mc_gcc)
    /\ ubd.mc_clang.stdout # ubd.mc_gcc.stdout

Clamp100(c) == IF c < 0 THEN 0 ELSE IF c > 100 THEN 100 ELSE c

\* The sum of the stated weights in hundredths, without the sanitizer term.
OtherSignalsCenti ==
    (IF ubd.result.optimization_sensitive THEN 20 ELSE 0)
        + (IF CrashAsymmetry THEN 25 ELSE IF OutputDifference THEN 15 ELSE 0)

\* The stated confidence in hundredths (exact decimal arithmetic).
StatedCenti ==
    Clamp100(50 + (IF ubd.ubsan = "clean" THEN 30 ELSE -40)
                + OtherSignalsCenti)

Signals(r) == <<r.ubsan_clean, r.optimization_sensitive,
                r.multi_compiler_differs>>

\* detect as a function of the environment (the four steps in sequence);
\* the state it ends in has pc "done" or "raised".
detect(clang, gcc, has_expected, ubsan, o0, o2, mc_clang, mc_gcc) ==
    LET s1 == StepCheckUbsan(UBInitState(clang, gcc, has_expected, ubsan,
                                         o0, o2, mc_clang, mc_gcc))
    IN IF s1.pc = "raised" THEN s1
       ELSE StepScore(StepCheckMultiCompiler(StepCheckOptimization(s1)))

\* Environments in which both compilers exist and the sanitizer run ends.
OtherRuns ==
    {detect(TRUE, TRUE, he, ub, a, b, c, d) :
        he \in BOOLEAN, ub \in {"clean", "triggered"},
        a \in {DefaultRun}, b \in {DefaultRun},
        c \in RunOutcomes, d \in RunOutcomes}

\* C16: two results of detect that report the same three booleans report
\* the same confidence (stated for results that come out of the scoring;
\* the short-circuit results with confidence 0.5 are left aside).
C16_ConfidenceFromSignalsAlone ==
    (UBDone /\ BaselineEstablished) =>
        \A t \in OtherRuns :
            Signals(t.result) = Signals(ubd.result)
                => t.result.confidence = ubd.result.confidence

\* The sanitizer build failed, or there is no compiler to build it with.
SanitizerUnknown == ~ubd.clang \/ ubd.ubsan = "compile_failed"

\* C17: when the sanitizer binary could not be built, the confidence holds
\* neither the +0.3 bonus nor the -0.4 penalty: a scored run has 0.5 plus
\* the other signals' weights.
C17_UnknownSanitizerNeutral ==
    (UBDone /\ SanitizerUnknown) =>
        \/ /\ ~BaselineEstablished
           /\ Hundredths(ubd.result.confidence) = 50
        \/ /\ BaselineEstablished
           /\ Hundredths(ubd.result.confidence)
                  = Clamp100(50 + OtherSignalsCenti)

\* The -O0 baseline is not established or there is no optimization data.
NoBaseline == ~BaselineEstablished

\* C18: when the baseline cannot be established, detect returns (it does
\* not raise) verdict 'inconclusive' with confidence exactly 0.5.
C18_NoBaselineInconclusive ==
    (ubd.pc \in {"done", "raised"} /\ NoBaseline) =>
        /\ ubd.pc = "done"
        /\ ubd.result.verdict = "inconclusive"
        /\ ubd.result.confidence = F_0_5

\* C19: when the sanitizer run reports "runtime error:", detect returns
\* 'user_ub' with confidence <= 0.3 whatever the other signals are (stated
\* for runs with an established baseline, which reach the scoring).
C19_SanitizerTriggeredUserUB ==
    (UBDone /\ BaselineEstablished /\ ubd.ubsan = "triggered") =>
        /\ ~ubd.result.ubsan_clean
        /\ ubd.result.verdict = "user_ub"
        /\ FLe(ubd.result.confidence, F_0_3)

\* =====================================================================
\* Part 5: full_pipeline_cmd (src/diagnoser/diagnose.py, lines 335-399)
\* with the three stage commands it calls.  A stage is one step; what the
\* stage's component returns is an input of the call.
\* =====================================================================
\* What UBDetector.detect does: returns one of its verdicts, or raises.
UBStageOutcomes == {"compiler_bug", "user_ub", "inconclusive", "raises"}

\* What VersionBisector.bisect returns: verdict, and whether
\* first_bad_version is set (the shapes the bisector model can reach).
VersionStageOutcomes ==
    {[verdict |-> "bisected", first_bad_version |-> TRUE],
     [verdict |-> "all_fail", first_bad_version |-> TRUE],
     [verdict |-> "all_pass", first_bad_version |-> FALSE],
     [verdict |-> "insufficient_compilers", first_bad_version |-> FALSE]}

\* What PassBisector.bisect does: returns one of its verdicts, or raises
\* (a subprocess timeout inside a probe propagates).
PassStageOutcomes ==
    {"bisected", "baseline_fails", "full_passes", "error", "raises"}

\* Tools that shutil.which may find for the first bad version's major.
Tools == {"clang-N", "opt-N", "opt", "llc-N", "llc"}

NoDict == [keys |-> {}, verdict |-> "none"]

\* Locals of full_pipeline_cmd at entry, for one environment.
PipelineInitState(has_placeholder, ub, vb, tools, pass_verdict) ==
    [pc |-> "ub_stage", has_placeholder |-> has_placeholder, ub |-> ub,
     vb |-> vb, tools |-> tools, pass_verdict |-> pass_verdict,
     invoked |-> <<>>,
     ub_result |-> NoDict, version_result |-> NoDict,
     pass_result |-> NoDict, returned |-> NoDict]

\* Lines 79-111: ub_detect_cmd.
ub_detect_cmd(s) ==
    IF s.ub = "raises" THEN [raised |-> TRUE, dict |-> NoDict]
    ELSE [raised |-> FALSE,
          dict |-> [keys |-> {"verdict", "confidence", "ubsan_clean",
                              "optimization_sensitive",
                              "multi_compiler_differs"},
                    verdict |-> s.ub]]

\* Lines 114-184: version_bisect_cmd.
version_bisect_cmd(s) ==
    IF ~s.has_placeholder THEN [raised |-> TRUE, dict |-> NoDict]
    ELSE [raised |-> FALSE,
          dict |-> [keys |-> {"verdict", "first_bad_version",
                              "last_good_version", "total_tests"},
                    verdict |-> s.vb.verdict]]

ErrorDict == [keys |-> {"verdict", "error", "first_bad_pass",
                        "last_good_pass"},
              verdict |-> "error"]

\* Lines 308-332: construct the PassBisector, run it, return its result.
run_pass_bisector(s) ==
    IF s.pass_verdict = "raises" THEN [raised |-> TRUE, dict |-> NoDict]
    ELSE [raised |-> FALSE,
          dict |-> [keys |-> {"verdict", "culprit_pass", "culprit_index",
                              "total_passes", "total_tests"},
                    verdict |-> s.pass_verdict]]

\* Mutant: a missing versioned compiler raises instead of returning the
\* 'error' dictionary.
pass_bisect_cmd_RaiseOnMissingClang(s) ==
    IF ~s.has_placeholder THEN [raised |-> TRUE, dict |-> NoDict]
    ELSE IF "clang-N" \notin s.tools THEN [raised |-> TRUE, dict |-> NoDict]
    ELSE LET opt_path == IF "opt-N" \in s.tools THEN "opt-N" ELSE "opt"
             llc_path == IF "llc-N" \in s.tools THEN "llc-N" ELSE "llc"
         IN IF opt_path \notin s.tools
            THEN [raised |-> FALSE, dict |-> ErrorDict]
            ELSE IF llc_path \notin s.tools
            THEN [raised |-> FALSE, dict |-> ErrorDict]
            ELSE run_pass_bisector(s)

\* Lines 187-332: pass_bisect_cmd with compiler_version set.
pass_bisect_cmd(s) ==
    IF ~s.has_placeholder THEN [raised |-> TRUE, dict |-> NoDict]
    ELSE IF "clang-N" \notin s.tools THEN [raised |-> FALSE, dict |-> ErrorDict]
    ELSE LET opt_path == IF "opt-N" \in s.tools THEN "opt-N" ELSE "opt"
             llc_path == IF "llc-N" \in s.tools THEN "llc-N" ELSE "llc"
         IN IF opt_path \notin s.tools
            THEN [raised |-> FALSE, dict |-> ErrorDict]
            ELSE IF llc_path \notin s.tools
            THEN [raised |-> FALSE, dict |-> ErrorDict]
            ELSE run_pass_bisector(s)

\* A `return {...}` of full_pipeline_cmd: the keys of the dictionary (no
\* exit path adds a top-level 'verdict').
PipelineReturn(s, keys) ==
    [s EXCEPT !.pc = "done",
              !.returned = [keys |-> keys, verdict |-> "none"]]

\* Mutant: the pipeline never stops after the UB stage.
StopsAfterUB_Never(ub_result) == FALSE

\* Line 359: if ub_result['verdict'] == 'user_ub'
StopsAfterUB(ub_result) == ub_result.verdict = "user_ub"

\* Lines 355-364.
StepUBStage(s) ==
    LET r == ub_detect_cmd(s)
        t == [s EXCEPT !.invoked = Append(@, "ub_detect"),
                       !.ub_result = r.dict]
    IN IF r.raised THEN [t EXCEPT !.pc = "raised"]
       ELSE IF StopsAfterUB(r.dict)
       THEN PipelineReturn(t, {"ub_detection", "recommendation"})
       ELSE [t EXCEPT !.pc = "version_stage"]

\* Lines 366-376.
StepVersionStage(s) ==
    LET r == version_bisect_cmd(s)
        t == [s EXCEPT !.invoked = Append(@, "version_bisect"),
                       !.version_result = r.dict]
    IN IF r.raised THEN [t EXCEPT !.pc = "raised"]
       ELSE IF ~s.vb.first_bad_version
       THEN PipelineReturn(t, {"ub_detection", "version_bisection",
                               "recommendation"})
       ELSE [t EXCEPT !.pc = "pass_stage"]

\* Lines 378-399.
StepPassStage(s) ==
    LET r == pass_bisect_cmd(s)
        t == [s EXCEPT !.invoked = Append(@, "pass_bisect"),
                       !.pass_result = r.dict]
    IN IF r.raised THEN [t EXCEPT !.pc = "raised"]
       ELSE PipelineReturn(t, {"ub_detection", "version_bisection",
                               "pass_bisection", "recommendation"})

\* ------------------------------------------------------- state machine
InitPipeline ==
    /\ IdleBisector
    /\ \E has_placeholder \in BOOLEAN : \E ub \in UBStageOutcomes :
       \E vb \in VersionStageOutcomes : \E tools \in SUBSET Tools :
       \E pass_verdict \in PassStageOutcomes :
           fp = PipelineInitState(has_placeholder, ub, vb, tools,
                                  pass_verdict)
    /\ cl = Idle /\ pb = Idle /\ ubd = Idle
    /\ cli = Idle /\ db = Idle

UBStage ==
    /\ fp.pc = "ub_stage"
    /\ fp' = StepUBStage(fp)
    /\ UNCHANGED <<vars, cl, pb, ubd, cli, db>>

VersionStage ==
    /\ fp.pc = "version_stage"
    /\ fp' = StepVersionStage(fp)
    /\ UNCHANGED <<vars, cl, pb, ubd, cli, db>>

PassStage ==
    /\ fp.pc = "pass_stage"
    /\ fp' = StepPassStage(fp)
    /\ UNCHANGED <<vars, cl, pb, ubd, cli, db>>

NextPipeline ==
    \/ UBStage
    \/ VersionStage
    \/ PassStage

SpecPipeline == InitPipeline /\ [][NextPipeline]_allvars

\* =====================================================================
\* Properties of full_pipeline_cmd
\* =====================================================================
Invoked == {fp.invoked[i] : i \in 1 .. Len(fp.invoked)}

\* C20: once the UB stage has returned 'inconclusive', neither version
\* bisection nor pass bisection is invoked, and the pipeline returns the
\* UB finding alone (stated for a test command that holds the {binary}
\* placeholder, so that no stage raises on it).
C20_InconclusiveStops ==
    (fp.pc # "idle" /\ fp.has_placeholder
         /\ fp.ub_result.verdict = "inconclusive") =>
        /\ "version_bisect" \notin Invoked
        /\ "pass_bisect" \notin Invoked
        /\ fp.pc \in {"done", "raised"} =>
               /\ fp.pc = "done"
               /\ fp.returned.keys = {"ub_detection", "recommendation"}

PipelineReturned == fp.pc = "done"

\* C21: once the UB stage has returned 'user_ub', neither version
\* bisection nor pass bisection is invoked, the pipeline returns (it does
\* not raise), and the returned diagnosis holds no version_bisection and
\* no pass_bisection entry.
C21_UserUBStops ==
    (fp.pc # "idle" /\ fp.ub_result.verdict = "user_ub") =>
        /\ "version_bisect" \notin Invoked
        /\ "pass_bisect" \notin Invoked
        /\ PipelineReturned
        /\ fp.returned.keys \cap {"version_bisection", "pass_bisection"} = {}

C21_Witness ==
    /\ PipelineReturned
    /\ fp.ub_result.verdict = "user_ub"
    /\ fp.invoked = <<"ub_detect">>

\* C22: pass bisection is invoked only after version bisection returned
\* 'bisected'; after any other version verdict the pipeline returns the
\* partial diagnosis (UB finding and version finding) and pass bisection
\* is never invoked.
C22_PassOnlyAfterBisected ==
    (fp.pc # "idle" /\ fp.version_result # NoDict) =>
        IF fp.version_result.verdict = "bisected"
        THEN fp.vb.first_bad_version
        ELSE /\ "pass_bisect" \notin Invoked
             /\ PipelineReturned
             /\ fp.returned.keys = {"ub_detection", "version_bisection",
                                    "recommendation"}

\* C24: every dictionary full_pipeline_cmd returns holds a top-level
\* 'verdict' key, whichever exit path produced it.
C24_TopLevelVerdict ==
    PipelineReturned => "verdict" \in fp.returned.keys

\* =====================================================================
\* Part 6: main (src/diagnoser/diagnose.py, lines 402-495).  One run of the
\* command line: argument parsing has chosen a subcommand (or none), main
\* dispatches to it, then prints the JSON block or exits with an error.
\* A full-pipeline run goes through the stages of Part 5.
\* =====================================================================
Commands ==
    {"analyze-report", "ub-detect", "version-bisect", "pass-bisect",
     "full-pipeline"}

NoCommand == "None"

NoExit == -1

NoReturn == [raised |-> FALSE, dict |-> NoDict]

\* The environment of a run whose inputs are not consulted.
DefaultEnv ==
    PipelineInitState(TRUE, "compiler_bug",
                      [verdict |-> "bisected", first_bad_version |-> TRUE],
                      Tools, "bisected")

\* The state of main after parse_args (line 461): the subcommand, whether
\* --compiler-version was given, whether the report file can be read and
\* parsed, and what the components will do.
CLIInitState(command, compiler_version, report_readable, env) ==
    [pc |-> "main", command |-> command,
     compiler_version |-> compiler_version,
     report_readable |-> report_readable, env |-> env,
     result |-> NoReturn, printed |-> NoDict, exit_code |-> NoExit]

\* Lines 37-76: analyze_report_cmd.  open/json.load raise on an unreadable
\* report; analyze_report runs UBDetector.detect on a reproducer.
analyze_report_cmd(s, report_readable) ==
    IF ~report_readable THEN [raised |-> TRUE, dict |-> NoDict]
    ELSE IF s.ub = "raises" THEN [raised |-> TRUE, dict |-> NoDict]
    ELSE [raised |-> FALSE,
          dict |-> [keys |-> {"report_id", "check_type", "ub_detection"},
                    verdict |-> "none"]]

\* Lines 187-332: pass_bisect_cmd as main calls it, with or without a
\* compiler version (lines 302-306: the system default tools).
pass_bisect_cmd_opt(s, compiler_version) ==
    IF compiler_version THEN pass_bisect_cmd(s)
    ELSE IF ~s.has_placeholder THEN [raised |-> TRUE, dict |-> NoDict]
    ELSE run_pass_bisector(s)

\* Lines 468-482: the call of a subcommand that is one function call.
CallCommand(s) ==
    CASE s.command = "analyze-report" ->
             analyze_report_cmd(s.env, s.report_readable)
      [] s.command = "ub-detect" -> ub_detect_cmd(s.env)
      [] s.command = "version-bisect" -> version_bisect_cmd(s.env)
      [] s.command = "pass-bisect" ->
             pass_bisect_cmd_opt(s.env, s.compiler_version)

\* Lines 463-465: no subcommand, print_help and sys.exit(1).
StepUsage(s) == [s EXCEPT !.pc = "exited", !.exit_code = 1]

\* Lines 467-478.
StepDispatch(s) == [s EXCEPT !.pc = "returned", !.result = CallCommand(s)]

\* Lines 479-482: full_pipeline_cmd has returned or raised.
StepPipelineReturn(s, f) ==
    [s EXCEPT !.pc = "returned",
              !.result = [raised |-> f.pc = "raised", dict |-> f.returned]]

\* Mutant: an 'error' verdict makes main exit with code 1.
StepExit_ErrorVerdictExits1(s) ==
    IF s.result.raised
    THEN [s EXCEPT !.pc = "exited", !.exit_code = 1]
    ELSE [s EXCEPT !.pc = "exited", !.printed = s.result.dict,
                   !.exit_code = IF s.result.dict.verdict = "error"
                                 THEN 1 ELSE 0]

\* Lines 487-495: print the JSON block and fall off the end of main (exit
\* code 0), or report the exception and sys.exit(1).
StepExit(s) ==
    IF s.result.raised
    THEN [s EXCEPT !.pc = "exited", !.exit_code = 1]
    ELSE [s EXCEPT !.pc = "exited", !.printed = s.result.dict,
                   !.exit_code = 0]

\* ------------------------------------------------------- state machine
InitCLI ==
    /\ IdleBisector
    /\ cl = Idle /\ pb = Idle /\ ubd = Idle /\ fp = Idle /\ db = Idle
    /\ \/ cli = CLIInitState(NoCommand, FALSE, TRUE, DefaultEnv)
       \/ \E report_readable \in BOOLEAN : \E ub \in UBStageOutcomes :
              cli = CLIInitState("analyze-report", FALSE, report_readable,
                                 [DefaultEnv EXCEPT !.ub = ub])
       \/ \E ub \in UBStageOutcomes :
              cli = CLIInitState("ub-detect", FALSE, TRUE,
                                 [DefaultEnv EXCEPT !.ub = ub])
       \/ \E has_placeholder \in BOOLEAN : \E vb \in VersionStageOutcomes :
              cli = CLIInitState("version-bisect", FALSE, TRUE,
                                 [DefaultEnv EXCEPT
                                     !.has_placeholder = has_placeholder,
                                     !.vb = vb])
       \/ \E has_placeholder \in BOOLEAN : \E compiler_version \in BOOLEAN :
          \E tools \in SUBSET Tools : \E pass_verdict \in PassStageOutcomes :
              cli = CLIInitState("pass-bisect", compiler_version, TRUE,
                                 [DefaultEnv EXCEPT
                                     !.has_placeholder = has_placeholder,
                                     !.tools = tools,
                                     !.pass_verdict = pass_verdict])
       \/ \E has_placeholder \in BOOLEAN : \E ub \in UBStageOutcomes :
          \E vb \in VersionStageOutcomes : \E tools \in SUBSET Tools :
          \E pass_verdict \in PassStageOutcomes :
              cli = CLIInitState("full-pipeline", FALSE, TRUE,
                                 PipelineInitState(has_placeholder, ub, vb,
                                                   tools, pass_verdict))

Usage ==
    /\ cli.pc = "main"
    /\ cli.command = NoCommand
    /\ cli' = StepUsage(cli)
    /\ UNCHANGED <<vars, cl, pb, ubd, fp, db>>

Dispatch ==
    /\ cli.pc = "main"
    /\ cli.command \in Commands \ {"full-pipeline"}
    /\ cli' = StepDispatch(cli)
    /\ UNCHANGED <<vars, cl, pb, ubd, fp, db>>

CallPipeline ==
    /\ cli.pc = "main"
    /\ cli.command = "full-pipeline"
    /\ cli' = [cli EXCEPT !.pc = "in_pipeline"]
    /\ fp' = cli.env
    /\ UNCHANGED <<vars, cl, pb, ubd, db>>

PipelineReturns ==
    /\ cli.pc = "in_pipeline"
    /\ fp.pc \in {"done", "raised"}
    /\ cli' = StepPipelineReturn(cli, fp)
    /\ UNCHANGED <<vars, cl, pb, ubd, fp, db>>

Exit ==
    /\ cli.pc = "returned"
    /\ cli' = StepExit(cli)
    /\ UNCHANGED <<vars, cl, pb, ubd, fp, db>>

NextCLI ==
    \/ Usage
    \/ Dispatch
    \/ CallPipeline
    \/ UBStage
    \/ VersionStage
    \/ PassStage
    \/ PipelineReturns
    \/ Exit

SpecCLI == InitCLI /\ [][NextCLI]_allvars

\* =====================================================================
\* Properties of main and of pass_bisect_cmd
\* =====================================================================
Exited == cli.pc = "exited"

DiagnosisEmitted == cli.printed # NoDict

\* pass_bisect_cmd was called for a specific compiler version, with a
\* usable test command, on a system without the versioned optimizer.
VersionedOptMissing(env) == env.has_placeholder /\ "opt-N" \notin env.tools

\* The call returned (did not raise) a result whose verdict is 'error'.
ReturnedError(r) == ~r.raised /\ r.dict.verdict = "error"

\* C23: when pass bisection is run for a specific compiler version and
\* opt-<major> is not installed, pass_bisect_cmd returns verdict 'error',
\* whether main called it (pass-bisect with --compiler-version) or the
\* full pipeline did (with first_bad_version).
C23_NoUnversionedOptFallback ==
    /\ (cli.pc \in {"returned", "exited"} /\ cli.command = "pass-bisect"
            /\ cli.compiler_version /\ VersionedOptMissing(cli.env)) =>
           ReturnedError(cli.result)
    /\ (fp.pc \in {"done", "raised"} /\ "pass_bisect" \in Invoked
            /\ VersionedOptMissing(fp)) =>
           /\ PipelineReturned
           /\ fp.pass_result.verdict = "error"

MissingVersionedCompilerRun ==
    /\ Exited
    /\ cli.command = "pass-bisect"
    /\ cli.compiler_version
    /\ cli.env.has_placeholder
    /\ "clang-N" \notin cli.env.tools

ErrorJsonPrinted ==
    /\ cli.printed.verdict = "error"
    /\ "error" \in cli.printed.keys

C27_MissingPlaceholderExitsOne ==
    (Exited /\ ~cli.env.has_placeholder
         /\ cli.command \in {"version-bisect", "pass-bisect",
                             "full-pipeline"}) =>
        /\ cli.exit_code = 1
        /\ ~DiagnosisEmitted

\* =====================================================================
\* Part 7: the collector's Database (src/collector/src/models.py).  The
\* reports table is the sequence of its rows in rowid order; the requests
\* of the Flask application call one Database method each.
\* =====================================================================
\* insert_report calls made in one run.
MaxReports == 3

\* Largest `limit` a queue request asks for.
MaxLimit == 1

\* Field values of submitted reports.
Files == {"src/main.c"}

Lines == {42}

Functions == {"main"}

CheckTypes == {"arithmetic_overflow", "sign_conversion"}

CompilerVersions == {"17.0.3"}

\* build_info.flags: lists of flag strings.  A flag is held as its rank in
\* the lexicographic order of the strings (1 for "-fwrapv", 2 for "-g"), so
\* that sorted() orders ranks as Python orders the strings.  The lists
\* hold the same flags in two orders, and once with a flag repeated.
FlagLists == {<<1, 2>>, <<2, 1>>, <<1, 1, 2>>}

\* Wall-clock instants of the run, in hours (datetime.now / time.time).
Instants == {0, 24, 168}

Statuses == {"new", "diagnosed"}

NoReport == [report_id |-> 0]

NoCall == [op |-> "none", report |-> NoReport, id |-> None, limit |-> 0,
           queue |-> <<>>]

\* The state after Database.connect on an empty file (lines 22-62).
EmptyDatabase ==
    [pc |-> "open", rows |-> <<>>, clock |-> 0, inserts |-> 0,
     last |-> NoCall]

\* Mutant: the flags are not sorted before they are joined.
_compute_dedupe_hash_Unsorted(report) ==
    <<report.file, report.line, report.function, report.check_type,
      report.compiler_version, report.flags>>

\* Lines 146-186: sha256 of "file:line:function:check_type:version:flags"
\* with the flags sorted and joined by commas.  The digest is held as the
\* tuple of the parts of the key string (equal digests iff equal strings;
\* the parts hold no ':' or ',' here, so equal strings iff equal parts).
_compute_dedupe_hash(report) ==
    <<report.file, report.line, report.function, report.check_type,
      report.compiler_version, sorted(report.flags)>>

\* Mutant: the lookup never finds a stored report.
Existing_NeverFound(rows, dedupe_hash) == {}

\* Lines 84-87: SELECT id, frequency ... WHERE dedupe_hash = ?, fetchone.
Existing(rows, dedupe_hash) ==
    {k \in 1 .. Len(rows) : rows[k].dedupe_hash = dedupe_hash}

Min2of(a, b) == IF a < b THEN a ELSE b

\* Lines 70-144: insert_report at instant now.  Returns the row id; the
\* INSERT raises (UNIQUE constraint on report_id) when a report that is
\* not a duplicate reuses a stored report_id.
insert_report(d, report) ==
    LET dedupe_hash == _compute_dedupe_hash(report)
        existing == Existing(d.rows, dedupe_hash)
        now == d.clock
        call == [NoCall EXCEPT !.op = "insert", !.report = report]
        t == [d EXCEPT !.inserts = @ + 1]
    IN IF existing # {}
       THEN LET k == CHOOSE i \in existing : \A j \in existing : i <= j
            IN [t EXCEPT !.rows[k].frequency = @ + 1,
                         !.rows[k].last_seen = now,
                         !.last = [call EXCEPT !.id = d.rows[k].id]]
       ELSE IF \E k \in 1 .. Len(d.rows) :
                   d.rows[k].report_id = report.report_id
       THEN [t EXCEPT !.last = [call EXCEPT !.op = "insert_raised"]]
       ELSE [t EXCEPT
                !.rows = Append(@, [id |-> Len(d.rows) + 1,
                                    report_id |-> report.report_id,
                                    check_type |-> report.check_type,
                                    file |-> report.file,
                                    line |-> report.line,
                                    function |-> report.function,
                                    compiler_version |->
                                        report.compiler_version,
                                    flags |-> report.flags,
                                    dedupe_hash |-> dedupe_hash,
                                    frequency |-> 1,
                                    first_seen |-> now,
                                    last_seen |-> now,
                                    status |-> "new"]),
                !.last = [call EXCEPT !.id = Len(d.rows) + 1]]

\* Lines 205-213 and 266: severity weight of a check type, in hundredths.
severity_weights(check_type) ==
    CASE check_type = "arithmetic_overflow" -> 100
      [] check_type = "unreachable_code_executed" -> 90
      [] check_type = "division_by_zero" -> 80
      [] check_type = "pure_function_inconsistency" -> 85
      [] check_type = "sign_conversion" -> 70
      [] check_type = "bounds_violation" -> 95
      [] check_type = "loop_bound_exceeded" -> 60
      [] OTHER -> 50

\* Lines 252-261: recency factor of an age in hours, in tenths.
recency(age_hours) ==
    IF age_hours < 24 THEN 10
    ELSE IF age_hours < 72 THEN 9
    ELSE IF age_hours < 168 THEN 7
    ELSE 5

\* Lines 247-267: priority score of a row, in thousandths.  The products
\* are exact here; the float products of the code order the rows in the
\* same way except among rows whose exact scores are equal.
priority_score(row, current_time) ==
    row.frequency * severity_weights(row.check_type)
        * recency(current_time - row.last_seen)

\* Line 272: results.sort(key=priority_score, reverse=True), a stable
\* sort: rows of equal score keep their order.
RECURSIVE InsertDesc(_, _)
InsertDesc(seq, r) ==
    IF seq = <<>> THEN <<r>>
    ELSE IF Head(seq).priority_score >= r.priority_score
    THEN <<Head(seq)>> \o InsertDesc(Tail(seq), r)
    ELSE <<r>> \o seq

RECURSIVE SortDesc(_)
SortDesc(seq) ==
    IF seq = <<>> THEN <<>>
    ELSE InsertDesc(SortDesc(SubSeq(seq, 1, Len(seq) - 1)), seq[Len(seq)])

IsNew(row) == row.status = "new"

\* Lines 216-223: SELECT * FROM reports WHERE status = 'new' LIMIT 2*limit;
\* SQLite returns the rows in rowid order.
Fetch(rows, limit) ==
    LET new_rows == SelectSeq(rows, IsNew)
    IN SubSeq(new_rows, 1, Min2of(2 * limit, Len(new_rows)))

\* Lines 188-275: the ids and scores of the returned reports, in order.
get_prioritized_queue(d, limit) ==
    LET fetched == Fetch(d.rows, limit)
        current_time == d.clock
        results == [k \in 1 .. Len(fetched) |->
                       [id |-> fetched[k].id,
                        priority_score |->
                            priority_score(fetched[k], current_time)]]
        ordered == SortDesc(results)
    IN SubSeq(ordered, 1, Min2of(limit, Len(ordered)))

\* Lines 295-307: update_report_status.
update_report_status(d, report_id, status) ==
    [d EXCEPT !.rows = [k \in 1 .. Len(d.rows) |->
                           IF d.rows[k].report_id = report_id
                           THEN [d.rows[k] EXCEPT !.status = status]
                           ELSE d.rows[k]],
              !.last = [NoCall EXCEPT !.op = "status"]]

\* Lines 309-333: the counters of get_stats.
get_stats(d) ==
    [total_reports |-> Len(d.rows),
     unique_bugs |-> Cardinality({d.rows[k].dedupe_hash :
                                      k \in 1 .. Len(d.rows)}),
     new_reports |-> Cardinality({k \in 1 .. Len(d.rows) :
                                      IsNew(d.rows[k])})]

\* ------------------------------------------------------- state machine
InitCollector ==
    /\ IdleBisector
    /\ cl = Idle /\ pb = Idle /\ ubd = Idle /\ fp = Idle /\ cli = Idle
    /\ db = EmptyDatabase

\* POST /api/v1/report with a valid report.
SubmitReport ==
    /\ db.pc = "open"
    /\ db.inserts < MaxReports
    /\ \E file \in Files : \E line \in Lines : \E function \in Functions :
       \E check_type \in CheckTypes : \E version \in CompilerVersions :
       \E flags \in FlagLists : \E report_id \in 1 .. db.inserts + 1 :
           db' = insert_report(db, [report_id |-> report_id, file |-> file,
                                    line |-> line, function |-> function,
                                    check_type |-> check_type,
                                    compiler_version |-> version,
                                    flags |-> flags])
    /\ UNCHANGED <<vars, cl, pb, ubd, fp, cli>>

\* Time passes between two requests.
Tick ==
    /\ db.pc = "open"
    /\ \E t \in Instants :
           /\ t > db.clock
           /\ db' = [db EXCEPT !.clock = t, !.last = NoCall]
    /\ UNCHANGED <<vars, cl, pb, ubd, fp, cli>>

\* GET /api/v1/queue?limit=N.
GetQueue ==
    /\ db.pc = "open"
    /\ \E limit \in 0 .. MaxLimit :
           db' = [db EXCEPT !.last = [NoCall EXCEPT
                                !.op = "queue", !.limit = limit,
                                !.queue = get_prioritized_queue(db, limit)]]
    /\ UNCHANGED <<vars, cl, pb, ubd, fp, cli>>

\* A diagnosis is attached to a stored report.
UpdateStatus ==
    /\ db.pc = "open"
    /\ \E k \in 1 .. Len(db.rows) :
           /\ IsNew(db.rows[k])
           /\ db' = update_report_status(db, db.rows[k].report_id,
                                         "diagnosed")
    /\ UNCHANGED <<vars, cl, pb, ubd, fp, cli>>

NextCollector ==
    \/ SubmitReport
    \/ Tick
    \/ GetQueue
    \/ UpdateStatus

SpecCollector == InitCollector /\ [][NextCollector]_allvars

\* =====================================================================
\* Properties of the collector's Database
\* =====================================================================
FlagSet(flags) == {flags[i] : i \in 1 .. Len(flags)}

SameSite(row, report) ==
    /\ row.file = report.file
    /\ row.line = report.line
    /\ row.function = report.function
    /\ row.check_type = report.check_type
    /\ row.compiler_version = report.compiler_version

\* The report has the stored row's site and the same set of flags.
SameFlagSet(row, report) ==
    SameSite(row, report) /\ FlagSet(row.flags) = FlagSet(report.flags)

\* The report has the stored row's site and the same flags, each as many
\* times, in any order.
SameFlagsAnyOrder(row, report) ==
    SameSite(row, report) /\ sorted(row.flags) = sorted(report.flags)

\* The insert_report call of this step counted the report on row k: no row
\* was added, the row's frequency went up by one (to 2 for the second
\* report of a bug: a new row starts at 1) and its last_seen is the instant
\* of the call, and total_reports of the stats view did not change.
CountedOnRow(k) ==
    /\ Len(db'.rows) = Len(db.rows)
    /\ db'.last.id = db.rows[k].id
    /\ db'.rows[k].frequency = db.rows[k].frequency + 1
    /\ db'.rows[k].last_seen = db.clock
    /\ get_stats(db').total_reports = get_stats(db).total_reports
    /\ \A j \in 1 .. Len(db.rows) : j # k => db'.rows[j] = db.rows[j]

InsertStep == db.pc = "open" /\ db'.last.op \in {"insert", "insert_raised"}

NewRowsStartAtOne ==
    \A k \in 1 .. Len(db'.rows) : k > Len(db.rows) =>
        db'.rows[k].frequency = 1

\* C28 (as stated): a submitted report with the file, line, function,
\* check type, compiler version and set of flags of a stored report adds no
\* row; it raises that row's frequency by one, refreshes its last_seen and
\* leaves total_reports unchanged.
C28_SameFlagSetCounted ==
    [][InsertStep =>
           /\ NewRowsStartAtOne
           /\ \A k \in 1 .. Len(db.rows) :
                  SameFlagSet(db.rows[k], db'.last.report) =>
                      CountedOnRow(k)]_allvars

\* C28 (amended): the same, for a submitted report whose flags are the
\* stored report's flags in any order, each flag as many times.
C28_SameFlagsCounted ==
    [][InsertStep =>
           /\ NewRowsStartAtOne
           /\ \A k \in 1 .. Len(db.rows) :
                  SameFlagsAnyOrder(db.rows[k], db'.last.report) =>
                      CountedOnRow(k)]_allvars

\* Two reports were submitted, the second with the first one's flags in
\* another order, another report_id and at a later instant: one row,
\* frequency 2, last_seen refreshed.
C28_Witness ==
    /\ db.pc = "open"
    /\ db.inserts = 2
    /\ db.last.op = "insert"
    /\ Len(db.rows) = 1
    /\ db.rows[1].frequency = 2
    /\ db.rows[1].flags # db.last.report.flags
    /\ SameFlagsAnyOrder(db.rows[1], db.last.report)
    /\ db.rows[1].report_id # db.last.report.report_id
    /\ db.rows[1].last_seen > db.rows[1].first_seen
    /\ get_stats(db).total_reports = 1

NewRowIds == {db.rows[k].id : k \in {j \in 1 .. Len(db.rows) :
                                          IsNew(db.rows[j])}}

ScoreOf(id) == priority_score(db.rows[id], db.clock)

QueueIds == {db.last.queue[i].id : i \in 1 .. Len(db.last.queue)}

\* C29: get_prioritized_queue(limit) returns min(limit, number of 'new'
\* reports) distinct 'new' reports with their scores, in descending score
\* order, and no 'new' report left out has a higher score than one that
\* is returned.
C29_QueueIsTopLimit ==
    (db.pc = "open" /\ db.last.op = "queue") =>
        LET q == db.last.queue IN
        /\ Len(q) = Min2of(db.last.limit, Cardinality(NewRowIds))
        /\ Cardinality(QueueIds) = Len(q)
        /\ QueueIds \subseteq NewRowIds
        /\ \A i \in 1 .. Len(q) : q[i].priority_score = ScoreOf(q[i].id)
        /\ \A i \in 1 .. Len(q) - 1 :
               q[i].priority_score >= q[i + 1].priority_score
        /\ \A id \in NewRowIds \ QueueIds : \A i \in 1 .. Len(q) :
               ScoreOf(id) <= q[i].priority_score

\* =====================================================================
\* Properties of the binary search of VersionBisector.bisect (frame)
\* =====================================================================
InBinarySearch == pc \in {"bisect_loop", "alt_probe"}

\* The positions the step probed (_test_version adds the version to
\* details, whatever the outcome).
ProbedInStep == (DOMAIN details') \ (DOMAIN details)

SkipProbed == \E i \in ProbedInStep : details'[i].passes = "None"

JudgedProbed == \E i \in ProbedInStep : details'[i].passes \in {"True", "False"}

\* The step took the branch of lines 290-305: mid was tested before and
\* its recorded pass or fail is used.
RecordedJudgementUsed ==
    /\ ProbedInStep = {}
    /\ mid' \in DOMAIN details
    /\ details[mid'].passes \in {"True", "False"}

SearchPointers == <<left, right, last_good_idx, first_bad_idx>>

\* C30: in the binary search, a step that probes a version that turns out
\* to be a skip (unavailable compiler or diagnostic rejection) leaves left,
\* right, last_good_idx and first_bad_idx as they were; a step changes any
\* of them only on a pass or a fail (of the version it probes, or the
\* recorded one of a mid tested before).
C30_SkipLeavesPointers ==
    [][InBinarySearch =>
           /\ SkipProbed => UNCHANGED SearchPointers
           /\ ~(UNCHANGED SearchPointers) =>
                  JudgedProbed \/ RecordedJudgementUsed]_allvars

\* The binary search has just probed mid, it was a skip, and the scan for
\* an alternate version starts with the boundaries where they were.
C30_Witness ==
    /\ pc = "alt_probe"
    /\ offset = 1
    /\ side = "right"
    /\ left < mid /\ mid < right
    /\ mid \in DOMAIN details
    /\ details[mid].passes = "None"
    /\ outcome[mid] \in {"diag", "unavail"}

\* =====================================================================
\* Part 8: VersionBisector._test_version in both modes
\* (src/diagnoser/src/version_bisector.py, lines 388-490, 578-752), seen
\* through the two endpoint probes that open every bisect call (lines
\* 108-134).  Here cl holds the bisector of one such call.
\* =====================================================================
\* What one version's compilation meets with use_docker = False
\* (_compile_local, which sets no time limit on the compiler) ...
LocalCompileKinds == {"unavail", "ice", "diag", "binary"}

\* ... and with use_docker = True: docker not installed, image pull
\* refused, one of the three subprocess time limits (5 s, 300 s, 60 s)
\* expiring, the compiler's non-zero exits, exit 0 without an output
\* file, exit 0 with the binary.
DockerCompileKinds ==
    {"no_docker", "pull_failed", "timeout", "ice", "diag", "no_output",
     "binary"}

\* What the caller's test_func would do with the binary.
OracleKinds == {"True", "False", "raises"}

\* What `docker run ubuntu:22.04 /bin_dir/<binary>` does.
DockerRunKinds == {"exit0", "nonzero", "timeout", "error"}

\* Lengths of version list whose probes are all endpoint probes.
EndpointLists == {1, 2}

\* Lines 578-697.  The try block (614-658) handles FileNotFoundError and
\* CalledProcessError only, so subprocess.TimeoutExpired leaves the
\* function: that outcome is the record [raised |-> "TimeoutExpired"].
_compile_with_docker(k) ==
    CASE k \in {"no_docker", "pull_failed"} ->
             [binary_path |-> FALSE, compiler_found |-> FALSE,
              compile_succeeded |-> FALSE, stderr |-> "none"]
      [] k = "timeout" -> [raised |-> "TimeoutExpired"]
      [] k = "ice" ->
             [binary_path |-> FALSE, compiler_found |-> TRUE,
              compile_succeeded |-> FALSE, stderr |-> "ice"]
      [] k = "diag" ->
             [binary_path |-> FALSE, compiler_found |-> TRUE,
              compile_succeeded |-> FALSE, stderr |-> "DIAGNOSTIC_ERROR"]
      [] k = "no_output" ->
             [binary_path |-> FALSE, compiler_found |-> TRUE,
              compile_succeeded |-> FALSE, stderr |-> "no_output"]
      [] OTHER ->
             [binary_path |-> TRUE, compiler_found |-> TRUE,
              compile_succeeded |-> TRUE, stderr |-> "none"]

\* Lines 699-752: the binary's exit status decides; test_func is not
\* called.  A timeout and any other exception give False.
_run_test_in_docker(r) == IF r = "exit0" THEN "True" ELSE "False"

\* Lines 469-490: the value recorded for a compiled binary, whether the
\* except clause ran, and whether test_func was called.
RunOracle(c, e) ==
    IF c.use_docker
    THEN [passes |-> _run_test_in_docker(e.run), test_error |-> FALSE,
          called |-> FALSE]
    ELSE [passes |-> IF e.oracle = "raises" THEN "False" ELSE e.oracle,
          test_error |-> e.oracle = "raises",
          called |-> TRUE]

\* Lines 411-490 for version v of bisector c: the new bisector state and
\* the value returned, or "raised" when an exception leaves the call.
TestVersionIn(c, v) ==
    LET e == c.env[v]
        b == IF c.use_docker THEN _compile_with_docker(e.compile)
             ELSE _compile_local(e.compile)
    IN IF "raised" \in DOMAIN b THEN [st |-> c, ret |-> "raised"]
       ELSE IF ~b.compiler_found THEN
           [st  |-> [c EXCEPT !.details = DictSet(@, v,
                       [passes |-> "None", compile_failed |-> FALSE,
                        skipped |-> TRUE, test_error |-> FALSE,
                        binary_path |-> FALSE])],
            ret |-> "None"]
       ELSE IF ~b.compile_succeeded THEN
           IF b.stderr = "DIAGNOSTIC_ERROR" THEN
               [st  |-> [c EXCEPT !.details = DictSet(@, v,
                           [passes |-> "None", compile_failed |-> TRUE,
                            skipped |-> TRUE, test_error |-> FALSE,
                            binary_path |-> FALSE])],
                ret |-> "None"]
           ELSE
               [st  |-> [c EXCEPT
                           !.tested_versions = Append(@, v),
                           !.details = DictSet(@, v,
                           [passes |-> "False", compile_failed |-> TRUE,
                            skipped |-> FALSE, test_error |-> FALSE,
                            binary_path |-> FALSE])],
                ret |-> "False"]
       ELSE
           LET o == RunOracle(c, e) IN
           [st  |-> [c EXCEPT
                       !.tested_versions = Append(@, v),
                       !.oracle_calls = IF o.called THEN @ \cup {v} ELSE @,
                       !.details = DictSet(@, v,
                       [passes |-> o.passes, compile_failed |-> FALSE,
                        skipped |-> FALSE, test_error |-> o.test_error,
                        binary_path |-> TRUE])],
            ret |-> o.passes]

\* Lines 108-118; an exception leaving _test_version leaves bisect, which
\* has no handler around the call.
StepProbeMin(c) ==
    LET t  == TestVersionIn(c, 0)
        s1 == RecordMin(t.st, t.ret, 0)
    IN IF t.ret = "raised" THEN [c EXCEPT !.pc = "raised"]
       ELSE [s1 EXCEPT !.pc = IF c.versions - 1 # 0 THEN "test_max"
                              ELSE "after_endpoints"]

\* Lines 121-134.
StepProbeMax(c) ==
    LET t  == TestVersionIn(c, c.versions - 1)
        s1 == RecordIfMissing(t.st, t.ret, c.versions - 1)
    IN IF t.ret = "raised" THEN [c EXCEPT !.pc = "raised"]
       ELSE [s1 EXCEPT !.pc = "after_endpoints"]

ProbeEnvs(use_docker) ==
    IF use_docker
    THEN [compile : DockerCompileKinds, oracle : OracleKinds,
          run : DockerRunKinds]
    ELSE [compile : LocalCompileKinds, oracle : OracleKinds,
          run : {"exit0"}]

InitProbes ==
    /\ IdleBisector
    /\ \E use_docker \in BOOLEAN : \E n \in EndpointLists :
       \E env \in [Idx(n) -> ProbeEnvs(use_docker)] :
           cl = [pc |-> "test_min", use_docker |-> use_docker,
                 versions |-> n, env |-> env,
                 passing_idx |-> None, failing_idx |-> None,
                 tested_versions |-> <<>>, details |-> <<>>,
                 oracle_calls |-> {}]
    /\ pb = Idle /\ ubd = Idle /\ fp = Idle
    /\ cli = Idle /\ db = Idle

ProbeMin ==
    /\ cl.pc = "test_min"
    /\ cl' = StepProbeMin(cl)
    /\ UNCHANGED <<vars, pb, ubd, fp, cli, db>>

ProbeMax ==
    /\ cl.pc = "test_max"
    /\ cl' = StepProbeMax(cl)
    /\ UNCHANGED <<vars, pb, ubd, fp, cli, db>>

NextProbes == ProbeMin \/ ProbeMax

SpecProbes == InitProbes /\ [][NextProbes]_allvars

\* =====================================================================
\* Properties of _test_version in both modes
\* =====================================================================
EndpointsProbed == cl.pc = "after_endpoints"

\* The probe of version v met a compile time limit or a raising test_func.
AttemptFailed(v) ==
    \/ cl.env[v].compile = "timeout"
    \/ cl.env[v].compile = "binary" /\ cl.env[v].oracle = "raises"
         /\ v \in cl.oracle_calls

RecordedFailedAttempt(v) ==
    /\ v \in Tested(cl)
    /\ v \in DOMAIN cl.details
    /\ cl.details[v].passes = "False"

\* C31: a compile timeout or an exception of the test function never
\* leaves bisect; the version is recorded as a failed attempt in
\* tested_versions and the next probe is made, in local and container mode.
C31_ProbeFailuresAbsorbed ==
    /\ cl.pc # "raised"
    /\ EndpointsProbed =>
           \A v \in Idx(cl.versions) :
               AttemptFailed(v) => RecordedFailedAttempt(v)

\* C33: for every version whose compilation produced a binary, the value
\* recorded is the value test_func returns on that binary, in local and
\* container mode.
C33_RecordedIsOracleValue ==
    cl.pc \in {"test_max", "after_endpoints"} =>
        \A v \in DOMAIN cl.details :
            cl.details[v].binary_path /\ cl.env[v].oracle # "raises" =>
                cl.details[v].passes = cl.env[v].oracle

\* C32: a timeout of the IR-generation, optimizer or final compile step of
\* a probe, or an exception of the oracle, does not leave
\* PassBisector.bisect: the probe counts as failed and a
\* PassBisectionResult is returned.
C32_PassProbeFailuresAbsorbed ==
    /\ pb.pc # "raised"
    /\ pb.pc = "done" =>
           /\ pb.result.verdict # "none"
           /\ \A k \in DOMAIN pb.details :
                  pb.probe[k] \in {"raise", "test_exc"} =>
                      ~pb.details[k].test_passed

\* =====================================================================
\* Part 9: PassBisector._parse_pipeline_to_passes and the extraction
\* branch of PassBisector.bisect (src/diagnoser/src/pass_bisector.py,
\* lines 76-113, 160-163, 292-317).  Here pb holds one bisect call up to
\* the end of that branch; a string is the sequence of its characters.
\* =====================================================================
\* Longest pipeline string explored.
MaxPipelineLen == 5

\* The characters of a pipeline string: a pass-name letter, the comma,
\* the three bracket pairs and the blank.
PipelineChars == {"a", ",", "<", ">", "(", ")", "{", "}", " "}

PipelineStrings ==
    UNION {[1 .. n -> PipelineChars] : n \in 0 .. MaxPipelineLen}

\* str.strip(), for the one whitespace character of PipelineChars.
RECURSIVE lstrip(_)
lstrip(str) ==
    IF str # <<>> /\ Head(str) = " " THEN lstrip(Tail(str)) ELSE str

RECURSIVE rstrip(_)
rstrip(str) ==
    IF str # <<>> /\ str[Len(str)] = " "
    THEN rstrip(SubSeq(str, 1, Len(str) - 1)) ELSE str

strip(str) == rstrip(lstrip(str))

\* Mutant: braces do not count as brackets.
ParseChar_BracesIgnored(acc, char) ==
    IF char \in {"<", "("} THEN
        [acc EXCEPT !.depth = @ + 1, !.current = Append(@, char)]
    ELSE IF char \in {">", ")"} THEN
        [acc EXCEPT !.depth = @ - 1, !.current = Append(@, char)]
    ELSE IF char = "," /\ acc.depth = 0 THEN
        IF acc.current # <<>>
        THEN [acc EXCEPT !.passes = Append(@, strip(acc.current)),
                         !.current = <<>>]
        ELSE acc
    ELSE [acc EXCEPT !.current = Append(@, char)]

\* Lines 93-106: the body of `for char in pipeline_str`.
ParseChar(acc, char) ==
    IF char \in {"<", "(", "{"} THEN
        [acc EXCEPT !.depth = @ + 1, !.current = Append(@, char)]
    ELSE IF char \in {">", ")", "}"} THEN
        [acc EXCEPT !.depth = @ - 1, !.current = Append(@, char)]
    ELSE IF char = "," /\ acc.depth = 0 THEN
        IF acc.current # <<>>
        THEN [acc EXCEPT !.passes = Append(@, strip(acc.current)),
                         !.current = <<>>]
        ELSE acc
    ELSE [acc EXCEPT !.current = Append(@, char)]

RECURSIVE ParseLoop(_, _)
ParseLoop(acc, rest) ==
    IF rest = <<>> THEN acc
    ELSE ParseLoop(ParseChar(acc, Head(rest)), Tail(rest))

\* Lines 76-113.
_parse_pipeline_to_passes(pipeline_str) ==
    LET acc == ParseLoop([passes |-> <<>>, current |-> <<>>, depth |-> 0],
                         pipeline_str)
    IN IF acc.current # <<>> THEN Append(acc.passes, strip(acc.current))
       ELSE acc.passes

\* Lines 292-317 with line 160: the pipeline is parsed; an empty one ends
\* the call with verdict 'error', any other goes on to the baseline probe.
StepParse(s) ==
    LET passes == _parse_pipeline_to_passes(s.pipeline_str) IN
    IF passes = <<>>
    THEN [s EXCEPT !.pc = "done", !.verdict = "error"]
    ELSE [s EXCEPT !.pc = "baseline", !.pass_pipeline = passes]

InitParse ==
    /\ IdleBisector
    /\ \E str \in PipelineStrings :
           pb = [pc |-> "extract", pipeline_str |-> str,
                 pass_pipeline |-> <<>>, verdict |-> "none"]
    /\ cl = Idle /\ ubd = Idle /\ fp = Idle
    /\ cli = Idle /\ db = Idle

ExtractPipeline ==
    /\ pb.pc = "extract"
    /\ pb' = StepParse(pb)
    /\ UNCHANGED <<vars, cl, ubd, fp, cli, db>>

NextParse == ExtractPipeline

SpecParse == InitParse /\ [][NextParse]_allvars

\* =====================================================================
\* Properties of the pipeline parser
\* =====================================================================
IsOpen(char) == char \in {"<", "(", "{"}
IsClose(char) == char \in {">", ")", "}"}

\* Bracket-nesting depth at position i: brackets opened minus brackets
\* closed before it.
DepthAt(str, i) ==
    Cardinality({j \in 1 .. (i - 1) : IsOpen(str[j])})
        - Cardinality({j \in 1 .. (i - 1) : IsClose(str[j])})

TopLevelCommas(str) ==
    {i \in 1 .. Len(str) : str[i] = "," /\ DepthAt(str, i) = 0}

\* The pieces between top-level commas, in order.
RECURSIVE Ascending(_)
Ascending(S) ==
    IF S = {} THEN <<>>
    ELSE <<SetMin(S)>> \o Ascending(S \ {SetMin(S)})

Cuts(str) == Ascending(TopLevelCommas(str) \cup {0, Len(str) + 1})

Pieces(str) ==
    LET c == Cuts(str) IN
    [k \in 1 .. (Len(c) - 1) |-> SubSeq(str, c[k] + 1, c[k + 1] - 1)]

\* The non-empty pieces, each without surrounding blanks.
TopLevelTokens(str) ==
    LET kept == SelectSeq(Pieces(str), LAMBDA p : p # <<>>) IN
    [k \in 1 .. Len(kept) |-> strip(kept[k])]

Parsed == pb.pc \in {"baseline", "done"}

\* C34: the pipeline string is split exactly at the commas at
\* bracket-nesting depth 0 with respect to <>, () and {}, the top-level
\* tokens are returned in their original order, and an empty resulting
\* pipeline makes bisect return verdict 'error'.
C34_SplitAtTopLevelCommas ==
    Parsed =>
        LET passes == _parse_pipeline_to_passes(pb.pipeline_str) IN
        /\ passes = TopLevelTokens(pb.pipeline_str)
        /\ pb.pc = "baseline" => pb.pass_pipeline = passes /\ passes # <<>>
        /\ pb.pc = "done" => passes = <<>> /\ pb.verdict = "error"

\* "a,{,}" was split at its first comma only.
C34_Witness ==
    /\ pb.pc = "baseline"
    /\ pb.pipeline_str = <<"a", ",", "{", ",", "}">>
    /\ pb.pass_pipeline = << <<"a">>, <<"{", ",", "}">> >>

\* =====================================================================
\* Properties of the optimization-sensitivity signal
\* =====================================================================
\* _check_optimization_sensitivity has returned after running the levels.
OptimizationChecked ==
    /\ ubd.pc \in {"check_multi_compiler", "score", "done"}
    /\ ubd.details.optimization = "outputs"

\* The level compiled and its binary ended before the 10 s limit.
RanToCompletion(o) == o.kind = "ran"

\* C35: when an expected output is supplied, the signal is True if and
\* only if O0 compiles, runs to completion and produces the expected
\* output, and O2 fails to compile, times out, or produces another output.
C35_SignalWithExpectedOutput ==
    OptimizationChecked /\ ubd.has_expected =>
        (ubd.optimization_sensitive <=>
            /\ RanToCompletion(ubd.o0)
            /\ ubd.o0.stdout = ExpectedOutput
            /\ \/ get_compile_failed(ubd.o2)
               \/ get_timeout(ubd.o2)
               \/ RanToCompletion(ubd.o2) /\ ubd.o2.stdout # ExpectedOutput)

\* C36: when no expected output is supplied, the signal is True if and
\* only if O0 and O2 both compile and run to completion and their
\* stdouts differ.
C36_SignalWithoutExpectedOutput ==
    OptimizationChecked /\ ~ubd.has_expected =>
        (ubd.optimization_sensitive <=>
            /\ RanToCompletion(ubd.o0)
            /\ RanToCompletion(ubd.o2)
            /\ ubd.o0.stdout # ubd.o2.stdout)

\* =====================================================================
\* Probe accounting and termination of VersionBisector.bisect
\* =====================================================================
\* Positions of bisect whose step always calls _test_version.
ProbingPcs == {"test_min", "test_max", "march_left", "march_right",
               "alt_probe"}

Skipped == {v \in DOMAIN details : details[v].skipped}

\* The step passed a version that was not in details to _test_version.
FreshProbe ==
    \E v \in Idx(versions) \ DOMAIN details :
        DOMAIN details' = DOMAIN details \cup {v}

ProbeCount == Len(tested_versions) + Cardinality(Skipped)

\* C37: within one bisect call no version is compiled or tested twice: a
\* version already in details is never passed to _test_version again, so
\* tests plus skips never exceed the number of versions.
C37_NoVersionProbedTwice ==
    [][/\ pc \in ProbingPcs => FreshProbe
       /\ pc = "bisect_loop" => FreshProbe \/ details' = details
       /\ ProbeCount' = Cardinality(DOMAIN details')
       /\ ProbeCount' <= versions']_allvars

\* A six-version search probed every version, skips among them, and
\* ended 'bisected'.
C37_Witness ==
    /\ Done
    /\ versions = 6
    /\ DOMAIN details = Idx(versions)
    /\ Skipped # {}
    /\ result.verdict = "bisected"

\* Longest version list explored for termination.
MaxSearched == 5

\* A probe passes, fails or is skipped.
SearchOutcomes == {"pass", "fail", "diag"}

InitSearched ==
    /\ \E n \in 1 .. MaxSearched : \E o \in [Idx(n) -> SearchOutcomes] :
           /\ versions = n
           /\ outcome = o
           /\ pc = InitState(n, o).pc
           /\ passing_idx = None
           /\ failing_idx = None
           /\ left = 0
           /\ right = n - 1
           /\ mid = None
           /\ offset = 0
           /\ side = "none"
           /\ first_bad_idx = None
           /\ last_good_idx = None
           /\ tested_versions = <<>>
           /\ details = <<>>
           /\ result = NoResult
    /\ cl = Idle /\ pb = Idle /\ ubd = Idle /\ fp = Idle
    /\ cli = Idle /\ db = Idle

\* A started bisect call keeps running: the interpreter takes the next
\* step of the call whenever there is one.
SpecTerminates == InitSearched /\ [][Next]_vars /\ WF_vars(Next)

BisectReturned == pc \in {"done", "raised"}

InSearchLoop == pc \in {"bisect_loop", "alt_probe"}

\* Candidates the alternate scan has not yet looked at: two per offset,
\* the right one first.
ScanRemaining ==
    IF pc = "alt_probe"
    THEN 2 * (Max2(mid - left, right - mid) - offset)
             + (IF side = "right" THEN 1 ELSE 0)
    ELSE 2 * versions

\* C38: bisect terminates for every version list and every assignment of
\* pass/fail/skip outcomes: each turn of the binary-search loop strictly
\* shrinks right - left or leaves the loop, also when the midpoint is a
\* skip and an alternate index is probed.
C38_SearchTerminates ==
    /\ [][InSearchLoop /\ pc' = "bisect_loop" =>
              right' - left' < right - left]_vars
    /\ [][InSearchLoop /\ pc' = "alt_probe" =>
              /\ right' = right /\ left' = left
              /\ ScanRemaining' < ScanRemaining
              /\ ScanRemaining' >= 0]_vars
    /\ [](InSearchLoop => right - left >= 0)
    /\ <>BisectReturned

\* A search that came back to the loop head after probing an alternate
\* index for a skipped midpoint.
C38_Witness ==
    /\ pc = "bisect_loop"
    /\ mid \in DOMAIN details
    /\ details[mid].skipped
    /\ offset >= 1
    /\ left < right
    /\ Len(tested_versions) >= 3

\* =====================================================================
\* Row and frequency accounting of sequential submissions
\* =====================================================================
RECURSIVE SumFrequency(_)
SumFrequency(rows) ==
    IF rows = <<>> THEN 0
    ELSE Head(rows).frequency + SumFrequency(Tail(rows))

StoredKeys(rows) == {rows[k].dedupe_hash : k \in 1 .. Len(rows)}

\* The request of this step was a submission that insert_report accepted.
AcceptedSubmission == db.pc = "open" /\ db'.last.op = "insert"

\* C39: after any sequence of sequential submissions the number of rows
\* equals the number of distinct dedup keys among the accepted
\* submissions and the frequencies add up to the number of accepted
\* submissions.  Stated step by step from the empty table: an accepted
\* submission adds one to the sum of the frequencies and adds its key to
\* the stored keys, no other request changes either, and the rows are as
\* many as the stored keys.
C39_RowsAndFrequencies ==
    /\ db.pc = "open" => db.rows = <<>>
    /\ [][db.pc = "open" =>
             /\ AcceptedSubmission =>
                    /\ SumFrequency(db'.rows) = SumFrequency(db.rows) + 1
                    /\ StoredKeys(db'.rows) = StoredKeys(db.rows) \cup
                           {_compute_dedupe_hash(db'.last.report)}
             /\ ~AcceptedSubmission =>
                    /\ SumFrequency(db'.rows) = SumFrequency(db.rows)
                    /\ StoredKeys(db'.rows) = StoredKeys(db.rows)
             /\ Len(db'.rows) = Cardinality(StoredKeys(db'.rows))]_allvars

\* Three accepted submissions of two different bugs: two rows, and the
\* frequencies add up to three.
C39_Witness ==
    /\ db.pc = "open"
    /\ db.inserts = 3
    /\ Len(db.rows) = 2
    /\ SumFrequency(db.rows) = 3
    /\ Cardinality(StoredKeys(db.rows)) = 2

\* =====================================================================
\* Part 10: two concurrent insert_report calls
\* (src/collector/src/models.py, lines 22-24, 28-62, 70-144).  The Flask
\* development server (collector.py, lines 259-263) serves each request in
\* a thread of its own, and all threads use the one connection opened with
\* check_same_thread=False.  A call is two steps, the SELECT and the
\* UPDATE or INSERT with its commit; the statements of the two calls
\* interleave.  The reports table has UNIQUE(report_id) and an index, but
\* no uniqueness constraint, on dedupe_hash.  Here db holds the table and
\* the two calls.
\* =====================================================================
Submitters == {1, 2}

\* `existing` before the SELECT has run, and when fetchone returns None.
NotSelected == [id |-> None, frequency |-> 0]

\* Lines 83-87: existing = SELECT id, frequency ... fetchone().
StepSelect(d, p) ==
    LET found == Existing(d.rows, _compute_dedupe_hash(d.call[p].report))
    IN [d EXCEPT !.call[p].pc = "write",
                 !.call[p].existing =
                     IF found = {} THEN NotSelected
                     ELSE LET k == CHOOSE i \in found :
                                       \A j \in found : i <= j
                          IN [id |-> d.rows[k].id,
                              frequency |-> d.rows[k].frequency]]

\* Lines 92-144: the UPDATE with the frequency read by the SELECT, or the
\* INSERT of a row with frequency 1, which raises on a stored report_id.
StepWrite(d, p) ==
    LET c == d.call[p]
        report == c.report
        now == d.clock
    IN IF c.existing # NotSelected
       THEN [d EXCEPT
                !.rows = [k \in 1 .. Len(d.rows) |->
                             IF d.rows[k].id = c.existing.id
                             THEN [d.rows[k] EXCEPT
                                      !.frequency = c.existing.frequency + 1,
                                      !.last_seen = now]
                             ELSE d.rows[k]],
                !.call[p].pc = "done"]
       ELSE IF \E k \in 1 .. Len(d.rows) :
                   d.rows[k].report_id = report.report_id
       THEN [d EXCEPT !.call[p].pc = "raised"]
       ELSE [d EXCEPT
                !.rows = Append(@, [id |-> Len(d.rows) + 1,
                                    report_id |-> report.report_id,
                                    check_type |-> report.check_type,
                                    file |-> report.file,
                                    line |-> report.line,
                                    function |-> report.function,
                                    compiler_version |->
                                        report.compiler_version,
                                    flags |-> report.flags,
                                    dedupe_hash |->
                                        _compute_dedupe_hash(report),
                                    frequency |-> 1,
                                    first_seen |-> now,
                                    last_seen |-> now,
                                    status |-> "new"]),
                !.call[p].pc = "done"]

ReportOf(report_id, check_type, flags) ==
    [report_id |-> report_id, file |-> "src/main.c", line |-> 42,
     function |-> "main", check_type |-> check_type,
     compiler_version |-> "17.0.3", flags |-> flags]

\* The table is empty or holds the bug already (one earlier sequential
\* submission); two reports of that bug arrive together.
InitConcurrent ==
    /\ IdleBisector
    /\ cl = Idle /\ pb = Idle /\ ubd = Idle /\ fp = Idle /\ cli = Idle
    /\ \E check_type \in CheckTypes : \E stored \in BOOLEAN :
       \E f0 \in FlagLists, f1 \in FlagLists, f2 \in FlagLists :
       \E r2 \in {2, 3} :
           /\ sorted(f0) = sorted(f1) /\ sorted(f1) = sorted(f2)
           /\ ~stored => f0 = f1
           /\ db = [pc |-> "serving",
                    rows |-> IF stored
                             THEN insert_report(EmptyDatabase,
                                      ReportOf(1, check_type, f0)).rows
                             ELSE <<>>,
                    clock |-> 24,
                    before |-> IF stored THEN 1 ELSE 0,
                    key |-> _compute_dedupe_hash(
                                ReportOf(2, check_type, f1)),
                    call |-> [p \in Submitters |->
                                 [pc |-> "select",
                                  report |-> ReportOf(IF p = 1 THEN 2 ELSE r2,
                                                check_type,
                                                IF p = 1 THEN f1 ELSE f2),
                                  existing |-> NotSelected]]]

Select ==
    /\ db.pc = "serving"
    /\ \E p \in Submitters :
           /\ db.call[p].pc = "select"
           /\ db' = StepSelect(db, p)
    /\ UNCHANGED <<vars, cl, pb, ubd, fp, cli>>

Write ==
    /\ db.pc = "serving"
    /\ \E p \in Submitters :
           /\ db.call[p].pc = "write"
           /\ db' = StepWrite(db, p)
    /\ UNCHANGED <<vars, cl, pb, ubd, fp, cli>>

NextConcurrent == Select \/ Write

SpecConcurrent == InitConcurrent /\ [][NextConcurrent]_allvars

\* =====================================================================
\* Properties of concurrent submissions
\* =====================================================================
BothCompleted ==
    /\ db.pc = "serving"
    /\ \A p \in Submitters : db.call[p].pc \in {"done", "raised"}

\* C40: two concurrent submissions with the same dedup key never produce
\* two rows and never lose an increment: once both calls have completed
\* there is exactly one row for the key and its frequency has grown by 2.
C40_ConcurrentSubmissionsCounted ==
    BothCompleted =>
        /\ Cardinality(Existing(db.rows, db.key)) = 1
        /\ \A k \in Existing(db.rows, db.key) :
               db.rows[k].frequency = db.before + 2

====
